---- MODULE Spec2Model ----
(***************************************************************************)
(* A model of the chat backend: the room store (ChatController and         *)
(* ChatService: createRoom, addParticipantToRoom) and the WebSocket        *)
(* gateway (ChatGateway: connect, disconnect, join-room, leave-room,       *)
(* send-message, load-messages, unread-summary) over the message store     *)
(* (MongoDB), the presence and pending-receipt keys (Redis) and the        *)
(* socket.io room adapter.                                                 *)
(*                                                                         *)
(* Every handler is an async function.  One action of the model is one     *)
(* awaited operation of a handler together with the synchronous code that  *)
(* follows it up to the next await; handlers of different requests and     *)
(* connections interleave between these actions.  In the gateway the guard *)
(* and the awaited reads of the room store (getRoom, isUserInRoom) are     *)
(* part of the action that starts the handler: no gateway handler writes   *)
(* the room store.                                                         *)
(***************************************************************************)
EXTENDS Integers, Sequences, FiniteSets, TLC

VARIABLES
  rooms,        \* chatRoomModel: the stored rooms, a room's id is its index
  req,          \* the HTTP requests in progress, per request slot
  started,      \* number of HTTP requests started so far
  messages,     \* messageModel: the stored messages, a message's id is its index
  presence,     \* Redis keys user:<userId> -> socket id
  pending,      \* Redis keys messageStatus:<userId>:<roomId>:<messageId> -> status
  conn,         \* per connection: "new" (not yet opened), "open" or "closed"
  cUserId,      \* client['userId'] of each socket
  cRoomId,      \* client['roomId'] of each socket
  adapterRooms, \* server.sockets.adapter.rooms: room id -> set of socket ids
  h,            \* per connection: the gateway handler in progress and its locals
  lastResp,     \* what the handler that finished last returned or pushed, and to whom
  hist,         \* history of the run, kept for the properties: which sends found
                \* which recipients subscribed or absent, which connections
                \* were pushed the summary of their connect, and so on
  events        \* number of events the clients have emitted so far

roomVars == <<rooms, req, started>>
chatVars == <<messages, presence, pending, conn, cUserId, cRoomId, adapterRooms,
              h, lastResp, hist, events>>
vars == <<rooms, req, started, messages, presence, pending, conn, cUserId, cRoomId,
          adapterRooms, h, lastResp, hist, events>>

(***************************************************************************)
(* Bounds of the model.                                                    *)
(***************************************************************************)
\* Rooms stored, HTTP requests started, ids in one participant list.
MaxRooms == 2
MaxReqs == 3
MaxIds == 2
\* Messages saved.
MaxMsgs == 2
\* Events emitted on the connections (join, leave, message, load, unread), in
\* Spec and in SpecStay.
MaxEvents == 3
MaxEventsStay == 4
\* Events emitted in SpecFaulty, in which awaited operations may throw.
MaxEventsFaulty == 3
\* Handlers in progress at the same time.
MaxActive == 2
\* Events emitted in SpecList, and chat lists fetched in it.
MaxEventsList == 3
MaxLists == 1
\* Events emitted in SpecMembers.
MaxEventsMembers == 3
\* Events emitted in SpecBodies.
MaxEventsBodies == 3

Users == {"u1", "u2", "u3"}
\* The users that issue HTTP requests; u3 only appears in id lists.
Requesters == {"u1", "u2"}
Reqs == {"q1", "q2"}
None == "none"

(***************************************************************************)
(* Helpers on sequences.                                                   *)
(***************************************************************************)
Range(s) == {s[i] : i \in 1..Len(s)}

SeqsUpTo(S, n) == UNION {[1..k -> S] : k \in 0..n}

RECURSIVE FilterSeq(_, _)
FilterSeq(s, keep) ==
  IF s = <<>> THEN <<>>
  ELSE (IF Head(s) \in keep THEN <<Head(s)>> ELSE <<>>) \o FilterSeq(Tail(s), keep)

(***************************************************************************)
(* The room store.                                                         *)
(***************************************************************************)
SINGLE == "SINGLE"
GROUP == "GROUP"
ACCEPT == "ACCEPT"
REQUEST == "REQUEST"
REJECT == "REJECT"
BLOCKED == "BLOCKED"

Participant(u, st) == [userId |-> u, status |-> st, is_deleted |-> FALSE]

ParticipantIds(room) == [i \in 1..Len(room.participants) |-> room.participants[i].userId]

\* A stored SINGLE room has records of both users among its participants.
SingleRoomOf(rs, a, b) ==
  \E i \in 1..Len(rs) :
    rs[i].type = SINGLE /\ {a, b} \subseteq {rs[i].participants[k].userId :
                                               k \in 1..Len(rs[i].participants)}

\* existed records, for a createRoom request that the validation pipe lets
\* through, whether a SINGLE room of the requester and the one other
\* participant id was stored when the request arrived; self, whether
\* participantIds held the requester's own id; valid, whether the request
\* passed the validation pipe; given, the length of its participantIds.  list
\* is the chat list that a getChatList or getRequestChatList request returned.
IdleReq == [op |-> None, pc |-> "idle", user |-> None, type |-> None, name |-> None,
            ids |-> <<>>, roomId |-> 0, participants |-> <<>>, result |-> None,
            existed |-> FALSE, self |-> FALSE, valid |-> FALSE, given |-> 0,
            list |-> <<>>]

\* The names a createRoom request may carry: none, one that RoomNameSchema
\* accepts and one that is too short for it.
Names == {None, "Team", "T"}

NameLength(name) == IF name = "Team" THEN 4 ELSE 1

MinNameLength == 2
MaxNameLength == 16

\* RoomNameSchema.optional()
RoomNameSchemaOk(name) == name # None => NameLength(name) \in MinNameLength..MaxNameLength

HasName(name) == name # None

\* CreateRoomSchema: the name, if any, is well-formed, participantIds is
\* non-empty, a GROUP room has a name and a SINGLE room has none.
CreateRoomSchemaOk(type, name, ids) ==
  /\ RoomNameSchemaOk(name)
  /\ Len(ids) >= 1
  /\ type = GROUP => HasName(name)
  /\ type = SINGLE => ~HasName(name)

\* ChatRoomSchema.pre('validate'), run by room.save().
PreValidateOk(type, name) ==
  /\ type = GROUP => HasName(name)
  /\ type = SINGLE => ~HasName(name)

\* The findOne query of createRoom: a SINGLE room with a participant record of
\* each of the two users.
ExistingRoomCreatorOnly(rs, a, b) ==
  \E i \in 1..Len(rs) :
    /\ rs[i].type = SINGLE
    /\ rs[i].created_by = a
    /\ b \in Range(ParticipantIds(rs[i]))

ExistingRoom(rs, a, b) ==
  \E i \in 1..Len(rs) :
    /\ rs[i].type = SINGLE
    /\ a \in Range(ParticipantIds(rs[i]))
    /\ b \in Range(ParticipantIds(rs[i]))

\* What is kept of a request once it is answered; a refused addParticipants
\* keeps the ids it was refused for.
Answered(r, result) ==
  [IdleReq EXCEPT !.op = r.op, !.pc = "done", !.user = r.user, !.type = r.type,
                  !.roomId = r.roomId, !.result = result, !.existed = r.existed,
                  !.self = r.self, !.valid = r.valid, !.given = r.given,
                  !.ids = IF r.op = "add" /\ result = "Conflict" THEN r.ids ELSE <<>>]

\* A new request takes the first slot that is free.
FreeSlot(q) ==
  /\ req[q].pc \in {"idle", "done"}
  /\ q = "q2" => req["q1"].pc \notin {"idle", "done"}
  /\ started < MaxReqs

CreatesInFlight == {q \in Reqs : req[q].op = "create" /\ req[q].pc \in {"check", "save"}}

\* An own-id check that looks at the first id only.
IncludesFirstOnly(ids, userId) == ids # <<>> /\ ids[1] = userId

\* createRoomDto.participantIds.includes(userId)
Includes(ids, userId) == \E i \in 1..Len(ids) : ids[i] = userId

\* ChatController.createRoom up to the first awaited operation of
\* ChatService.createRoom: the validation pipe, the own-id check, the mapping
\* of participantIds to REQUEST participants.
CreateRoom(q, user, type, name, ids) ==
  /\ FreeSlot(q)
  /\ Len(rooms) + Cardinality(CreatesInFlight) < MaxRooms
  /\ started' = started + 1
  /\ LET r == [IdleReq EXCEPT !.op = "create", !.user = user, !.type = type,
                                !.existed = /\ CreateRoomSchemaOk(type, name, ids)
                                            /\ type = SINGLE
                                            /\ Len(ids) = 1
                                            /\ ids[1] # user
                                            /\ SingleRoomOf(rooms, user, ids[1]),
                                !.self = user \in Range(ids),
                                !.valid = CreateRoomSchemaOk(type, name, ids),
                                !.given = Len(ids)]
     IN req' = [req EXCEPT ![q] =
          IF ~CreateRoomSchemaOk(type, name, ids)
            THEN Answered(r, "BadRequest")
          ELSE IF Includes(ids, user)
            THEN Answered(r, "Conflict")
          ELSE [r EXCEPT !.ids = ids, !.name = name,
                         !.participants = [i \in 1..Len(ids) |-> Participant(ids[i], REQUEST)],
                         !.pc = IF type = SINGLE THEN "check" ELSE "save"]]
  /\ UNCHANGED <<rooms, chatVars>>

\* A check that leaves out the length of participants.
CreateRoomCheckNoLengthCheck(q) ==
  /\ req[q].op = "create" /\ req[q].pc = "check"
  /\ LET r == req[q]
         participantUserId == r.participants[1].userId
     IN req' = [req EXCEPT ![q] =
          IF ExistingRoom(rooms, r.user, participantUserId)
            THEN Answered(r, "Conflict")
          ELSE [r EXCEPT !.pc = "save"]]
  /\ UNCHANGED <<rooms, started, chatVars>>

\* ChatService.createRoom, SINGLE: the awaited findOne and the two Conflict checks.
CreateRoomCheck(q) ==
  /\ req[q].op = "create" /\ req[q].pc = "check"
  /\ LET r == req[q]
         participantUserId == r.participants[1].userId
     IN req' = [req EXCEPT ![q] =
          IF ExistingRoom(rooms, r.user, participantUserId)
            THEN Answered(r, "Conflict")
          ELSE IF Len(r.participants) # 1
            THEN Answered(r, "Conflict")
          ELSE [r EXCEPT !.pc = "save"]]
  /\ UNCHANGED <<rooms, started, chatVars>>

\* A push of the creator with the status of the other participants.
PushCreatorAsRequest(participants, userId) == Append(participants, Participant(userId, REQUEST))

\* participants.push({userId, status: ACCEPT, is_deleted: false})
PushCreator(participants, userId) == Append(participants, Participant(userId, ACCEPT))

\* ChatService.createRoom: the creator is pushed as an ACCEPT participant and the
\* room is saved; a failing save is answered with BadRequest.
CreateRoomSave(q) ==
  /\ req[q].op = "create" /\ req[q].pc = "save"
  /\ LET r == req[q]
         participants == PushCreator(r.participants, r.user)
         room == [type |-> r.type, participants |-> participants,
                  admins |-> <<r.user>>, created_by |-> r.user]
     IN IF PreValidateOk(r.type, r.name)
          THEN /\ rooms' = Append(rooms, room)
               /\ req' = [req EXCEPT ![q] =
                    Answered([r EXCEPT !.roomId = Len(rooms) + 1], "Created")]
          ELSE /\ rooms' = rooms
               /\ req' = [req EXCEPT ![q] = Answered(r, "BadRequest")]
  /\ UNCHANGED <<started, chatVars>>

\* AddParticipantSchema: userIds is non-empty.
AddParticipantSchemaOk(ids) == Len(ids) >= 1

\* ChatController.handleAddParticipant: the validation pipe.
AddParticipant(q, user, roomId, ids) ==
  /\ FreeSlot(q)
  /\ started' = started + 1
  /\ req' = [req EXCEPT ![q] =
       IF ~AddParticipantSchemaOk(ids)
         THEN Answered([IdleReq EXCEPT !.op = "add", !.user = user, !.roomId = roomId,
                                       !.ids = ids],
                       "BadRequest")
       ELSE [IdleReq EXCEPT !.op = "add", !.pc = "get", !.user = user, !.roomId = roomId,
                            !.ids = ids]]
  /\ UNCHANGED <<rooms, chatVars>>

\* The checks of addParticipantToRoom on the room that getRoom returned, in the
\* order of the code; "pass" when none of them throws.
AddChecksNoTypeCheck(room, currentUserId, userIds) ==
  IF currentUserId \notin Range(room.admins) THEN "Unauthorized"
  ELSE IF currentUserId \in Range(userIds) THEN "Conflict"
  ELSE IF \E i \in 1..Len(userIds) : userIds[i] \in Range(ParticipantIds(room)) THEN "Conflict"
  ELSE "pass"

AddChecksNoDuplicateCheck(room, currentUserId, userIds) ==
  IF currentUserId \notin Range(room.admins) THEN "Unauthorized"
  ELSE IF room.type # GROUP THEN "Unauthorized"
  ELSE IF currentUserId \in Range(userIds) THEN "Conflict"
  ELSE "pass"

AddChecks(room, currentUserId, userIds) ==
  IF currentUserId \notin Range(room.admins) THEN "Unauthorized"
  ELSE IF room.type # GROUP THEN "Unauthorized"
  ELSE IF currentUserId \in Range(userIds) THEN "Conflict"
  ELSE IF \E i \in 1..Len(userIds) : userIds[i] \in Range(ParticipantIds(room)) THEN "Conflict"
  ELSE "pass"

\* ChatService.addParticipantToRoom: the awaited getRoom and the checks on its result.
AddParticipantGet(q) ==
  /\ req[q].op = "add" /\ req[q].pc = "get"
  /\ LET r == req[q]
     IN req' = [req EXCEPT ![q] =
          IF r.roomId \notin 1..Len(rooms)
            THEN Answered(r, "NotFound")
          ELSE IF AddChecks(rooms[r.roomId], r.user, r.ids) # "pass"
            THEN Answered(r, AddChecks(rooms[r.roomId], r.user, r.ids))
          ELSE [r EXCEPT !.pc = "update",
                         !.participants = [i \in 1..Len(r.ids) |-> Participant(r.ids[i], REQUEST)]]]
  /\ UNCHANGED <<rooms, started, chatVars>>

\* A $set of participants to the new ones.
SetParticipants(participants, newParticipants) == newParticipants

\* findOneAndUpdate({_id, type: GROUP}, {$addToSet: {participants: {$each}}}): the
\* new participants are subdocuments, each with an _id of its own, so none of
\* them equals a stored one and each is appended.
AddToSetEach(participants, newParticipants) == participants \o newParticipants

AddParticipantUpdate(q) ==
  /\ req[q].op = "add" /\ req[q].pc = "update"
  /\ LET r == req[q]
     IN /\ rooms' = IF r.roomId \in 1..Len(rooms) /\ rooms[r.roomId].type = GROUP
                      THEN [rooms EXCEPT ![r.roomId].participants =
                              AddToSetEach(rooms[r.roomId].participants, r.participants)]
                      ELSE rooms
        /\ req' = [req EXCEPT ![q] = Answered(r, "OK")]
  /\ UNCHANGED <<started, chatVars>>

(***************************************************************************)
(* The gateway: connections, stores and keys.                              *)
(***************************************************************************)
Conns == {"c1", "c2", "c3"}

\* The identity (user.sub) that the token of each connection carries.
Ident(c) == IF c = "c1" THEN "u1" ELSE "u2"

SENT == "SENT"
DELIVERED == "DELIVERED"
SEEN == "SEEN"

Rank(st) == CASE st = SENT -> 0 [] st = DELIVERED -> 1 [] st = SEEN -> 2

\* The rooms under which the gateway is run: two GROUP rooms as createRoom
\* stores them, room 1 created by u1 with participantIds [u2] and room 2
\* created by u2 with participantIds [u3].
ChatRooms ==
  << [type |-> GROUP,
      participants |-> <<Participant("u2", REQUEST), Participant("u1", ACCEPT)>>,
      admins |-> <<"u1">>, created_by |-> "u1"],
     [type |-> GROUP,
      participants |-> <<Participant("u3", REQUEST), Participant("u2", ACCEPT)>>,
      admins |-> <<"u2">>, created_by |-> "u2"] >>

\* The same two rooms when the createRoom request of room 1 carried
\* participantIds [u2, u2], which the schema and createRoom accept.
ChatRoomsRepeated ==
  << [type |-> GROUP,
      participants |-> <<Participant("u2", REQUEST), Participant("u2", REQUEST),
                         Participant("u1", ACCEPT)>>,
      admins |-> <<"u1">>, created_by |-> "u1"],
     ChatRooms[2] >>

\* The same two rooms when the record of u2 in room 1 has the given status and
\* is_deleted flag.
ChatRoomsWith(status, is_deleted) ==
  << [type |-> GROUP,
      participants |-> <<[userId |-> "u2", status |-> status, is_deleted |-> is_deleted],
                         Participant("u1", ACCEPT)>>,
      admins |-> <<"u1">>, created_by |-> "u1"],
     ChatRooms[2] >>

\* The room ids a join-room event may carry: the two stored rooms and one id
\* that no room has.
JoinRoomIds == {1, 2, 3}

MsgIds == 1..MaxMsgs
KeyRooms == 1..2

\* An isUserInRoom that only counts a record whose status is ACCEPT.
IsUserInRoomAccepted(roomId, userId) ==
  /\ roomId \in 1..Len(rooms)
  /\ \E i \in 1..Len(rooms[roomId].participants) :
       /\ rooms[roomId].participants[i].userId = userId
       /\ rooms[roomId].participants[i].status = ACCEPT

\* An isUserInRoom whose query leaves out 'participants.userId'.
IsUserInRoomAnyUser(roomId, userId) == roomId \in 1..Len(rooms)

\* ChatService.isUserInRoom: a room with that id and a participant record of the user.
IsUserInRoom(roomId, userId) ==
  /\ roomId \in 1..Len(rooms)
  /\ userId \in Range(ParticipantIds(rooms[roomId]))

\* ChatService.getRoom finds the room (it throws NotFoundException otherwise).
RoomFound(roomId) == roomId \in 1..Len(rooms)

\* The texts a message event may carry: the empty string and one that is not.
Bodies == {"", "hi"}

\* The texts that SendMessageSchema accepts.
ValidBodies == {"hi"}

BodyLength(message) == IF message = "" THEN 0 ELSE 2

MinBodyLength == 1

\* A MessageSchema without the minimum length.
MessageSchemaAnyString(message) == TRUE

\* MessageSchema: z.string().min(1)
MessageSchemaOk(message) == BodyLength(message) >= MinBodyLength

\* SendMessageSchema: {message: MessageSchema}
SendMessageSchemaOk(message) == MessageSchemaOk(message)

\* The document of saveMessage: one receiver per id, each SENT.
NewMessage(roomId, senderId, message, receiverIds) ==
  [room_id |-> roomId, sender_id |-> senderId, message |-> message,
   receivers |-> [i \in 1..Len(receiverIds) |-> [userId |-> receiverIds[i], status |-> SENT]]]

\* A save that stores the document twice.
SaveMessageTwice(msgs, roomId, senderId, message, receiverIds) ==
  Append(Append(msgs, NewMessage(roomId, senderId, message, receiverIds)),
         NewMessage(roomId, senderId, message, receiverIds))

\* ChatService.saveMessage: newMessage.save() stores the one document.
SaveMessage(msgs, roomId, senderId, message, receiverIds) ==
  Append(msgs, NewMessage(roomId, senderId, message, receiverIds))

HasReceiver(msg, userId) == \E i \in 1..Len(msg.receivers) : msg.receivers[i].userId = userId

\* Array.find: the first receiver of the user.
FirstReceiver(msg, userId) ==
  CHOOSE i \in 1..Len(msg.receivers) :
    /\ msg.receivers[i].userId = userId
    /\ \A j \in 1..(i - 1) : msg.receivers[j].userId # userId

\* The durable receipt status of (message, user); None when there is none.
Receipt(msgs, m, userId) ==
  IF m \in 1..Len(msgs) /\ HasReceiver(msgs[m], userId)
    THEN msgs[m].receivers[FirstReceiver(msgs[m], userId)].status
    ELSE None

\* An update that adds a receiver of the user when the message has none.
UpdateMessageStatusUpsert(msgs, m, userId, status) ==
  IF m \in 1..Len(msgs)
    THEN IF HasReceiver(msgs[m], userId)
           THEN [msgs EXCEPT ![m].receivers[FirstReceiver(msgs[m], userId)].status = status]
           ELSE [msgs EXCEPT ![m].receivers =
                   Append(@, [userId |-> userId, status |-> status])]
    ELSE msgs

\* ChatService.updateMessageStatus: updateOne({_id, 'receivers.userId'},
\* {$set: {'receivers.$.status'}}) sets the first matching receiver, whatever
\* its status was, and does nothing when nothing matches.
UpdateMessageStatus(msgs, m, userId, status) ==
  IF m \in 1..Len(msgs) /\ HasReceiver(msgs[m], userId)
    THEN [msgs EXCEPT ![m].receivers[FirstReceiver(msgs[m], userId)].status = status]
    ELSE msgs

\* The last component of the key messageStatus:<userId>:<roomId>:* that join
\* and leave delete: the text "*", which is the id of no message.
Star == 0

\* Redis SET, GET and DEL of one messageStatus key <<userId, roomId, messageId>>.
\* DEL of a key that is not stored, such as the literal key that ends in "*",
\* changes nothing.
KeySpace == Users \X KeyRooms \X MsgIds

RedisSet(p, key, status) == IF key \in KeySpace THEN [p EXCEPT ![key] = status] ELSE p

RedisGet(p, key) == IF key \in KeySpace THEN p[key] ELSE None

RedisDel(p, key) == IF key \in KeySpace THEN [p EXCEPT ![key] = None] ELSE p

\* The keys of a set as a list, by message, then room, then user.
UserNo(u) == CASE u = "u1" -> 1 [] u = "u2" -> 2 [] OTHER -> 3

KeyBefore(k, j) ==
  \/ k[3] < j[3]
  \/ k[3] = j[3] /\ k[2] < j[2]
  \/ k[3] = j[3] /\ k[2] = j[2] /\ UserNo(k[1]) <= UserNo(j[1])

RECURSIVE KeySeq(_)
KeySeq(S) ==
  IF S = {} THEN <<>>
  ELSE LET k == CHOOSE k \in S : \A j \in S : KeyBefore(k, j)
       IN <<k>> \o KeySeq(S \ {k})

\* A KEYS messageStatus:* that leaves the user out of the pattern.
RedisKeysOfAllUsers(p, userId) == KeySeq({k \in KeySpace : p[k] # None})

\* Redis KEYS messageStatus:<userId>:*, the keys <<userId, roomId, messageId>>
\* that are stored.
RedisKeys(p, userId) == KeySeq({k \in KeySpace : k[1] = userId /\ p[k] # None})

\* server.sockets.sockets: the sockets that are connected.
Sockets == {c \in Conns : conn[c] = "open"}

IdleHandler ==
  [pc |-> "idle", ret |-> None, room |-> 0, user |-> None, sender |-> None,
   body |-> None, parts |-> <<>>, msg |-> 0,
   rc |-> None, status |-> None, sock |-> None, keys |-> <<>>, total |-> 0,
   counts |-> [r \in KeyRooms |-> 0], unread |-> <<>>, msgs |-> {}, unseen |-> {},
   owed |-> {}, scanned |-> {}]

\* The unread summary that a send pushes to a recipient's socket.
NoSummary == [conn |-> None, ok |-> FALSE, total |-> 0, counts |-> [r \in KeyRooms |-> 0]]

\* ok and text are the success and message fields of the response; failed
\* records whether the event that is answered has failed.  For the
\* acknowledgment of a send, room is its room, cast the sockets that the
\* message was broadcast to before the handler returned, and summary the unread
\* summary that the same step pushed to the last recipient's socket before
\* the broadcast.  For a new-message notice, room is the room of the notice.
NoResp == [conn |-> None, ev |-> None, ok |-> FALSE, text |-> None, total |-> 0,
           counts |-> [r \in KeyRooms |-> 0], msgs |-> {}, unseen |-> {}, failed |-> FALSE,
           room |-> 0, cast |-> {}, summary |-> NoSummary]

Resp(ev, ok, text) == [NoResp EXCEPT !.ev = ev, !.ok = ok, !.text = text, !.failed = ~ok]

\* The response of a handler that reports success although a handler it called
\* has caught an error.
RespAfterError(ev, text) == [Resp(ev, TRUE, text) EXCEPT !.failed = TRUE]

\* The response of connection c.
At(c, resp) == [resp EXCEPT !.conn = c]

Idle(c) == h[c].pc = "idle"

\* The handlers in progress.
Active == {c \in Conns : ~Idle(c)}

\* The messages whose send found no presence entry of the user and that no
\* unread summary of the user has gone over since.
Owed(userId) == {m \in MsgIds : <<m, userId>> \in hist.absent \ hist.served}

\* The handlers of connection c that run handleSendMessage for the room.
Sending(d, roomId) == h[d].sender # None /\ h[d].room = roomId

\* The handlers that run handleJoinRoom for the room.
Joining(d, roomId) == h[d].ret = "join" /\ h[d].room = roomId

\* The history after a step of handleUnreadMessages on connection c: when the
\* summary of a connect or of an unread event returns, the messages it owed
\* have had their summary, and the connection has had its next summary; the
\* summary of a connect is emitted to the connection by handleConnection.
HistAfterUnread(c) ==
  IF h[c].ret \in {"conn", "event"} /\ h'[c].pc = "idle"
    THEN [hist EXCEPT !.served = @ \cup {<<m, h[c].user>> : m \in h[c].owed},
                      !.clean = {e \in @ : e[1] # c},
                      !.summaries = IF h[c].ret = "conn" THEN @ \cup {c} ELSE @]
    ELSE hist

\* The history after a step of handleLoadMessages on connection c: when it
\* returns to a join and no send to the room is in progress, the connection has
\* joined the room with no send in between; when it returns to a load event,
\* the connection has had its following load.
HistAfterLoad(c) ==
  IF h'[c].pc # "idle" THEN hist
  ELSE IF h[c].ret = "join"
    THEN IF \E d \in Conns : Sending(d, h[c].room)
           THEN hist
           ELSE [hist EXCEPT !.clean = @ \cup {<<c, h[c].room>>}]
    ELSE [hist EXCEPT !.clean = {e \in @ : e[1] # c}]

\* An event is handled on a connected socket whose earlier handler has returned.
CanStart(c) ==
  /\ conn[c] = "open"
  /\ Idle(c)
  /\ Cardinality(Active) < MaxActive

\* A room set that socket.io deletes when its last socket leaves: a handler
\* that holds a reference to such a set holds an empty set from then on.
MarkStale(hh, emptied) ==
  [d \in Conns |-> IF hh[d].rc = "live" /\ hh[d].room \in emptied
                     THEN [hh[d] EXCEPT !.rc = "stale"] ELSE hh[d]]

Emptied(before, after) == {r \in DOMAIN before : before[r] # {} /\ after[r] = {}}

(***************************************************************************)
(* handleConnection and handleDisconnect.                                  *)
(***************************************************************************)
\* The transport-level connect: the socket is in server.sockets.sockets and
\* handleConnection awaits verifyToken.
Connect(c) ==
  /\ conn[c] = "new"
  /\ Cardinality(Active) < MaxActive
  /\ conn' = [conn EXCEPT ![c] = "open"]
  /\ h' = [h EXCEPT ![c] = [IdleHandler EXCEPT !.pc = "verify"]]
  /\ UNCHANGED <<roomVars, messages, presence, pending, cUserId, cRoomId, adapterRooms,
                 lastResp, hist, events>>

\* A handleDisconnect that takes the identity from the token of the socket
\* instead of client['userId'].
PresenceAfterDisconnectByToken(c) == [presence EXCEPT ![Ident(c)] = None]

\* handleDisconnect, unconditional: DEL user:<userId> whenever client['userId'] is set.
PresenceAfterDisconnect(c) ==
  IF cUserId[c] # None THEN [presence EXCEPT ![cUserId[c]] = None] ELSE presence

\* The socket closes: socket.io takes it out of its rooms and of
\* server.sockets.sockets, then handleDisconnect runs.  A handler of the
\* connection that is awaiting an operation goes on afterwards.
Disconnect(c) ==
  /\ conn[c] = "open"
  /\ conn' = [conn EXCEPT ![c] = "closed"]
  /\ adapterRooms' = [r \in KeyRooms |-> adapterRooms[r] \ {c}]
  /\ h' = MarkStale(h, Emptied(adapterRooms, adapterRooms'))
  /\ presence' = PresenceAfterDisconnect(c)
  /\ UNCHANGED <<roomVars, messages, pending, cUserId, cRoomId, lastResp, hist, events>>

\* verifyToken resolves: client['userId'] is set and SET user:<userId> is issued next.
ConnVerifyOk(c) ==
  /\ h[c].pc = "verify"
  /\ cUserId' = [cUserId EXCEPT ![c] = Ident(c)]
  /\ h' = [h EXCEPT ![c].pc = "conn_set"]
  /\ UNCHANGED <<roomVars, messages, presence, pending, conn, cRoomId, adapterRooms,
                 lastResp, hist, events>>

\* verifyToken throws: the catch block calls client.disconnect().
ConnVerifyFail(c) ==
  /\ h[c].pc = "verify"
  /\ conn' = [conn EXCEPT ![c] = "closed"]
  /\ adapterRooms' = [r \in KeyRooms |-> adapterRooms[r] \ {c}]
  /\ h' = [MarkStale(h, Emptied(adapterRooms, adapterRooms')) EXCEPT ![c] = IdleHandler]
  /\ presence' = IF conn[c] = "open" THEN PresenceAfterDisconnect(c) ELSE presence
  /\ UNCHANGED <<roomVars, messages, pending, cUserId, cRoomId, lastResp, hist, events>>

\* A handleConnection that goes on to handleUnreadMessages(client) without SET
\* user:<userId>.
ConnSetNoRegister(c) ==
  /\ h[c].pc = "conn_set"
  /\ h' = [h EXCEPT ![c] = [IdleHandler EXCEPT !.pc = "unread_keys", !.ret = "conn",
                                               !.user = cUserId[c],
                                               !.owed = Owed(cUserId[c])]]
  /\ UNCHANGED <<roomVars, messages, presence, pending, conn, cUserId, cRoomId, adapterRooms,
                 lastResp, hist, events>>

\* SET user:<userId> <socket id>, then handleUnreadMessages(client) starts.
ConnSet(c) ==
  /\ h[c].pc = "conn_set"
  /\ presence' = [presence EXCEPT ![Ident(c)] = c]
  /\ h' = [h EXCEPT ![c] = [IdleHandler EXCEPT !.pc = "unread_keys", !.ret = "conn",
                                               !.user = cUserId[c],
                                               !.owed = Owed(cUserId[c])]]
  /\ UNCHANGED <<roomVars, messages, pending, conn, cUserId, cRoomId, adapterRooms,
                 lastResp, hist, events>>

(***************************************************************************)
(* handleSendMessage: the end of one recipient's turn of the loop.         *)
(***************************************************************************)
\* The loop goes to the next participant, or the handler broadcasts and returns.
SendNext(hc) ==
  IF Len(hc.parts) > 1
    THEN [hc EXCEPT !.parts = Tail(hc.parts), !.pc = "send_get", !.status = None,
                    !.sock = None, !.user = None, !.keys = <<>>, !.total = 0,
                    !.counts = [r \in KeyRooms |-> 0], !.scanned = {}]
    ELSE IdleHandler

\* A broadcast with server.to(roomId), which goes to the sender's socket too.
BroadcastToAll(c, roomId) == adapterRooms[roomId]

\* client.to(roomId).emit(MESSAGE, ...): the sockets of the room other than
\* the sender's.
Broadcast(c, roomId) == adapterRooms[roomId] \ {c}

\* The end of handleSendMessage: the broadcast, then the return to the sender.
SendAck(c, hc) ==
  At(c, [Resp("send", TRUE, "Success") EXCEPT !.room = hc.room,
                                               !.cast = Broadcast(c, hc.room)])

SendNextResp(c, hc) == IF Len(hc.parts) > 1 THEN lastResp ELSE SendAck(c, hc)

\* socket.emit(NEW_MESSAGE, {roomId}) to the recipient's socket.
Notice(roomId) == [Resp("new-message", TRUE, None) EXCEPT !.room = roomId]

\* socket.emit(UNREAD_MESSAGES, unreadMessages) to the recipient's socket: what
\* handleUnreadMessages(socket) returned, a summary or its failure.
PushedSummary(hc, ok) ==
  IF ok THEN [conn |-> hc.sock, ok |-> TRUE, total |-> hc.total, counts |-> hc.counts]
  ELSE [NoSummary EXCEPT !.conn = hc.sock]

\* The summary is pushed to the recipient's socket and the loop goes on.
SendNextRespAfterSummary(c, hc, ok) ==
  IF Len(hc.parts) > 1
    THEN At(hc.sock, [Resp("unread", ok, None) EXCEPT !.summary = PushedSummary(hc, ok)])
    ELSE [SendAck(c, hc) EXCEPT !.summary = PushedSummary(hc, ok)]

(***************************************************************************)
(* handleUnreadMessages, called by handleConnection, handleLeaveRoom,      *)
(* handleSendMessage (on the recipient's socket) and the unread event.     *)
(***************************************************************************)
Summary(ev, hc) == [Resp(ev, TRUE, None) EXCEPT !.total = hc.total, !.counts = hc.counts]

\* handleUnreadMessages returns {success, totalUnreadCount, roomUnreadCounts} to its caller.
UnreadReturn(hc) == IF hc.ret = "send" THEN SendNext(hc) ELSE IdleHandler

UnreadReturnResp(c, hc) ==
  CASE hc.ret = "send" -> SendNextRespAfterSummary(c, hc, TRUE)
    [] hc.ret = "conn" -> At(c, Summary("connect", hc))
    [] hc.ret = "leave" -> At(c, Summary("leave", hc))
    [] OTHER -> At(c, Summary("unread", hc))

\* The unread event: the guard, then the handler reads client['userId'].
UnreadMessages(c) ==
  /\ CanStart(c)
  /\ h' = [h EXCEPT ![c] = [IdleHandler EXCEPT !.pc = "unread_keys", !.ret = "event",
                                               !.user = cUserId[c],
                                               !.owed = Owed(cUserId[c])]]
  /\ events' = events + 1
  /\ UNCHANGED <<roomVars, messages, presence, pending, conn, cUserId, cRoomId, adapterRooms,
                 lastResp, hist>>

\* KEYS messageStatus:<userId>:*
UnreadKeys(c) ==
  /\ h[c].pc = "unread_keys"
  /\ LET keys == IF h[c].user = None THEN <<>> ELSE RedisKeys(pending, h[c].user)
         hc == [h[c] EXCEPT !.keys = keys, !.total = 0, !.counts = [r \in KeyRooms |-> 0]]
     IN IF keys = <<>>
          THEN /\ h' = [h EXCEPT ![c] = UnreadReturn(hc)]
               /\ lastResp' = UnreadReturnResp(c, hc)
          ELSE /\ h' = [h EXCEPT ![c] = [hc EXCEPT !.pc = "unread_get"]]
               /\ lastResp' = lastResp
  /\ hist' = HistAfterUnread(c)
  /\ UNCHANGED <<roomVars, messages, presence, pending, conn, cUserId, cRoomId, adapterRooms,
                 events>>

\* messageStatus === SENT || messageStatus === DELIVERED
Counted(messageStatus) == messageStatus = SENT \/ messageStatus = DELIVERED

\* GET of the next key; a SENT or DELIVERED one is counted, for the room that
\* is the third component of the key too.  scanned records the keys that
\* held SENT or DELIVERED when they were read.
UnreadGet(c) ==
  /\ h[c].pc = "unread_get"
  /\ LET k == Head(h[c].keys)
         messageStatus == RedisGet(pending, k)
         seen == IF pending[k] \in {SENT, DELIVERED} THEN h[c].scanned \cup {k}
                 ELSE h[c].scanned
         rest == [h[c] EXCEPT !.keys = Tail(h[c].keys), !.scanned = seen]
     IN IF Counted(messageStatus)
          THEN /\ h' = [h EXCEPT ![c] = [h[c] EXCEPT !.total = h[c].total + 1,
                                                     !.counts[k[2]] = h[c].counts[k[2]] + 1,
                                                     !.scanned = seen,
                                                     !.pc = "unread_set"]]
               /\ lastResp' = lastResp
          ELSE IF rest.keys = <<>>
            THEN /\ h' = [h EXCEPT ![c] = UnreadReturn(rest)]
                 /\ lastResp' = UnreadReturnResp(c, rest)
            ELSE /\ h' = [h EXCEPT ![c] = rest]
                 /\ lastResp' = lastResp
  /\ hist' = HistAfterUnread(c)
  /\ UNCHANGED <<roomVars, messages, presence, pending, conn, cUserId, cRoomId, adapterRooms,
                 events>>

\* SET of the counted key to DELIVERED.
UnreadSet(c) ==
  /\ h[c].pc = "unread_set"
  /\ LET k == Head(h[c].keys)
     IN pending' = RedisSet(pending, k, DELIVERED)
  /\ h' = [h EXCEPT ![c].pc = "unread_db"]
  /\ UNCHANGED <<roomVars, messages, presence, conn, cUserId, cRoomId, adapterRooms,
                 lastResp, hist, events>>

\* updateMessageStatus(messageId, userId, DELIVERED), with the message id that
\* ends the key and the user of the socket, then the next key.
UnreadDb(c) ==
  /\ h[c].pc = "unread_db"
  /\ LET k == Head(h[c].keys)
         rest == [h[c] EXCEPT !.keys = Tail(h[c].keys)]
     IN /\ messages' = UpdateMessageStatus(messages, k[3], h[c].user, DELIVERED)
        /\ IF rest.keys = <<>>
             THEN /\ h' = [h EXCEPT ![c] = UnreadReturn(rest)]
                  /\ lastResp' = UnreadReturnResp(c, rest)
             ELSE /\ h' = [h EXCEPT ![c] = [rest EXCEPT !.pc = "unread_get"]]
                  /\ lastResp' = lastResp
  /\ hist' = HistAfterUnread(c)
  /\ UNCHANGED <<roomVars, presence, pending, conn, cUserId, cRoomId, adapterRooms,
                 events>>

(***************************************************************************)
(* handleLoadMessages, called by handleJoinRoom and the load event.        *)
(***************************************************************************)
RECURSIVE IdSeq(_)
IdSeq(S) ==
  IF S = {} THEN <<>>
  ELSE LET m == CHOOSE m \in S : \A j \in S : m <= j IN <<m>> \o IdSeq(S \ {m})

\* getMessagesForRoom: the ids of the messages of the room.
MessagesForRoom(msgs, roomId) == {m \in 1..Len(msgs) : msgs[m].room_id = roomId}

\* The filter of handleLoadMessages: the messages with a receiver of the user
\* whose status is not SEEN.
UnreadOf(msgs, roomId, userId) ==
  {m \in MessagesForRoom(msgs, roomId) :
     HasReceiver(msgs[m], userId) /\ Receipt(msgs, m, userId) # SEEN}

LoadResp(ev, text, hc) == [Resp(ev, TRUE, text) EXCEPT !.msgs = hc.msgs, !.unseen = hc.unseen]

\* handleLoadMessages returns {success, messages}: to the load event's client, or
\* to handleJoinRoom, which emits it and returns its own success.
LoadReturnResp(hc) ==
  IF hc.ret = "join" THEN LoadResp("join", "Room joined successfully.", hc)
  ELSE LoadResp("load", None, hc)

\* The load event: the guard, then the handler reads client['userId'] and client['roomId'].
LoadMessages(c) ==
  /\ CanStart(c)
  /\ IF cRoomId[c] = 0
       THEN /\ h' = h
            /\ lastResp' = At(c, Resp("load", FALSE, "You are not in a room"))
       ELSE /\ h' = [h EXCEPT ![c] = [IdleHandler EXCEPT !.pc = "load_find", !.ret = "event",
                                                         !.user = cUserId[c],
                                                         !.room = cRoomId[c]]]
            /\ lastResp' = lastResp
  /\ events' = events + 1
  /\ UNCHANGED <<roomVars, messages, presence, pending, conn, cUserId, cRoomId, adapterRooms,
                 hist>>

\* getMessagesForRoom, then the filter of the messages the user has not seen.
LoadFind(c) ==
  /\ h[c].pc = "load_find"
  /\ LET unreadMessages == UnreadOf(messages, h[c].room, h[c].user)
         hc == [h[c] EXCEPT !.msgs = MessagesForRoom(messages, h[c].room),
                            !.unseen = unreadMessages,
                            !.unread = IdSeq(unreadMessages)]
     IN IF unreadMessages = {}
          THEN /\ h' = [h EXCEPT ![c] = IdleHandler]
               /\ lastResp' = At(c, LoadReturnResp(hc))
          ELSE /\ h' = [h EXCEPT ![c] = [hc EXCEPT !.pc = "load_upd"]]
               /\ lastResp' = lastResp
  /\ hist' = HistAfterLoad(c)
  /\ UNCHANGED <<roomVars, messages, presence, pending, conn, cUserId, cRoomId, adapterRooms,
                 events>>

\* updateMessageStatus(message, userId, SEEN); when it resolves the key of the
\* message is deleted (DEL is not awaited) and the loop goes on.
LoadUpd(c) ==
  /\ h[c].pc = "load_upd"
  /\ LET m == Head(h[c].unread)
         rest == [h[c] EXCEPT !.unread = Tail(h[c].unread)]
     IN /\ messages' = UpdateMessageStatus(messages, m, h[c].user, SEEN)
        /\ pending' = RedisDel(pending, <<h[c].user, h[c].room, m>>)
        /\ IF rest.unread = <<>>
             THEN /\ h' = [h EXCEPT ![c] = IdleHandler]
                  /\ lastResp' = At(c, LoadReturnResp(rest))
             ELSE /\ h' = [h EXCEPT ![c] = rest]
                  /\ lastResp' = lastResp
  /\ hist' = HistAfterLoad(c)
  /\ UNCHANGED <<roomVars, presence, conn, cUserId, cRoomId, adapterRooms, events>>

(***************************************************************************)
(* handleJoinRoom.                                                         *)
(***************************************************************************)
\* The join event: the guard; client['roomId'] and client['userId'] are set
\* before the room is looked up; getRoom (it throws NotFoundException, which the
\* catch block answers with the generic failure); isUserInRoom; then
\* client.join(roomId), the DEL of the key that ends in "*", and
\* handleLoadMessages(client) starts.
JoinRoom(c, roomId) ==
  /\ CanStart(c)
  /\ cRoomId' = [cRoomId EXCEPT ![c] = roomId]
  /\ cUserId' = [cUserId EXCEPT ![c] = Ident(c)]
  /\ events' = events + 1
  /\ IF ~RoomFound(roomId)
       THEN /\ lastResp' = At(c,
                 Resp("join", FALSE, "An error occurred while joining the room"))
            /\ UNCHANGED <<h, adapterRooms, pending, hist>>
       ELSE IF ~IsUserInRoom(roomId, Ident(c))
         THEN /\ lastResp' = At(c,
                   Resp("join", FALSE, "You are not authorized to join this room"))
              /\ UNCHANGED <<h, adapterRooms, pending, hist>>
         ELSE /\ adapterRooms' = [adapterRooms EXCEPT ![roomId] = @ \cup {c}]
              /\ pending' = RedisDel(pending, <<Ident(c), roomId, Star>>)
              /\ h' = [h EXCEPT ![c] = [IdleHandler EXCEPT !.pc = "load_find", !.ret = "join",
                                                           !.user = Ident(c),
                                                           !.room = roomId]]
              /\ lastResp' = lastResp
              /\ hist' = [hist EXCEPT !.raced = @ \cup
                            {<<h[d].msg, Ident(c)>> :
                               d \in {d \in Conns : /\ Sending(d, roomId)
                                                    /\ h[d].msg # 0
                                                    /\ Ident(c) \in Range(h[d].parts)}}]
  /\ UNCHANGED <<roomVars, messages, presence, conn>>

(***************************************************************************)
(* handleLeaveRoom.                                                        *)
(***************************************************************************)
\* The leave event: the guard; the handler reads client['roomId']; getRoom (which
\* throws for no room id and for an unknown one); isUserInRoom; then
\* client.leave(roomId), with client['roomId'] left as it is, the DEL of the key
\* that ends in "*", and handleUnreadMessages(client) starts.
LeaveRoom(c) ==
  /\ CanStart(c)
  /\ events' = events + 1
  /\ IF ~RoomFound(cRoomId[c])
       THEN /\ lastResp' = At(c,
                 Resp("leave", FALSE, "An error occurred while leaving the room"))
            /\ UNCHANGED <<h, adapterRooms, pending>>
       ELSE IF ~IsUserInRoom(cRoomId[c], Ident(c))
         THEN /\ lastResp' = At(c,
                   Resp("leave", FALSE, "You are not authorized to leave this room"))
              /\ UNCHANGED <<h, adapterRooms, pending>>
         ELSE /\ adapterRooms' = [adapterRooms EXCEPT ![cRoomId[c]] = @ \ {c}]
              /\ pending' = RedisDel(pending, <<Ident(c), cRoomId[c], Star>>)
              /\ h' = [MarkStale(h, Emptied(adapterRooms, adapterRooms')) EXCEPT
                         ![c] = [IdleHandler EXCEPT !.pc = "unread_keys", !.ret = "leave",
                                                    !.user = cUserId[c]]]
              /\ lastResp' = lastResp
  /\ UNCHANGED <<roomVars, messages, presence, conn, cUserId, cRoomId, hist>>

(***************************************************************************)
(* handleSendMessage.                                                      *)
(***************************************************************************)
SendsBeforeSave == {c \in Conns : h[c].pc = "send_save"}

\* room.participants.map(userId).filter(userId !== senderId)
Recipients(room, senderId) == FilterSeq(ParticipantIds(room), Users \ {senderId})

\* A message event whose handler does not look at whether client['roomId'] is set.
SendMessageNoRoomCheck(c, message) ==
  /\ CanStart(c)
  /\ Len(messages) + Cardinality(SendsBeforeSave) < MaxMsgs
  /\ events' = events + 1
  /\ IF ~SendMessageSchemaOk(message)
       THEN /\ h' = h
            /\ lastResp' = At(c, Resp("exception", FALSE, "Internal server error"))
       ELSE IF ~RoomFound(cRoomId[c])
         THEN /\ h' = h
              /\ lastResp' = At(c,
                   Resp("send", FALSE, "An error occurred while sending the message"))
         ELSE IF ~IsUserInRoom(cRoomId[c], Ident(c))
           THEN /\ h' = h
                /\ lastResp' = At(c,
                     Resp("send", FALSE, "You are not a participant of this room"))
           ELSE /\ h' = [h EXCEPT ![c] =
                     [IdleHandler EXCEPT !.pc = "send_save", !.room = cRoomId[c],
                                         !.sender = Ident(c), !.body = message,
                                         !.parts = Recipients(rooms[cRoomId[c]], Ident(c))]]
                /\ lastResp' = lastResp
  /\ hist' = IF h'[c].pc = "send_save"
               THEN [hist EXCEPT !.clean = {e \in @ : e[2] # cRoomId[c]}]
               ELSE hist
  /\ UNCHANGED <<roomVars, messages, presence, pending, conn, cUserId, cRoomId, adapterRooms>>

\* The message event: the guard; the validation pipe of the message body, which
\* throws before the handler is called, so that the exception filter of the
\* gateway emits the exception event to the client; then the handler reads
\* client['roomId']; getRoom; isUserInRoom(roomId, senderId); the participants
\* other than the sender.
SendMessage(c, message) ==
  /\ CanStart(c)
  /\ Len(messages) + Cardinality(SendsBeforeSave) < MaxMsgs
  /\ events' = events + 1
  /\ IF ~SendMessageSchemaOk(message)
       THEN /\ h' = h
            /\ lastResp' = At(c, Resp("exception", FALSE, "Internal server error"))
       ELSE IF cRoomId[c] = 0
         THEN /\ h' = h
              /\ lastResp' = At(c, Resp("send", FALSE, "You are not in a room"))
       ELSE IF ~RoomFound(cRoomId[c])
         THEN /\ h' = h
              /\ lastResp' = At(c,
                   Resp("send", FALSE, "An error occurred while sending the message"))
         ELSE IF ~IsUserInRoom(cRoomId[c], Ident(c))
           THEN /\ h' = h
                /\ lastResp' = At(c,
                     Resp("send", FALSE, "You are not a participant of this room"))
           ELSE /\ h' = [h EXCEPT ![c] =
                     [IdleHandler EXCEPT !.pc = "send_save", !.room = cRoomId[c],
                                         !.sender = Ident(c), !.body = message,
                                         !.parts = Recipients(rooms[cRoomId[c]], Ident(c))]]
                /\ lastResp' = lastResp
  /\ hist' = IF h'[c].pc = "send_save"
               THEN [hist EXCEPT !.clean = {e \in @ : e[2] # cRoomId[c]}]
               ELSE hist
  /\ UNCHANGED <<roomVars, messages, presence, pending, conn, cUserId, cRoomId, adapterRooms>>

\* saveMessage; then roomClients = adapter.rooms.get(roomId), which is undefined
\* for a room without sockets and the room's own set otherwise.
SendSave(c) ==
  /\ h[c].pc = "send_save"
  /\ messages' = SaveMessage(messages, h[c].room, h[c].sender, h[c].body, h[c].parts)
  /\ LET hc == [h[c] EXCEPT !.msg = Len(messages) + 1,
                            !.rc = IF adapterRooms[h[c].room] = {} THEN "undefined" ELSE "live"]
     IN IF hc.parts = <<>>
          THEN /\ h' = [h EXCEPT ![c] = IdleHandler]
               /\ lastResp' = SendAck(c, hc)
          ELSE /\ h' = [h EXCEPT ![c] = [hc EXCEPT !.pc = "send_get"]]
               /\ lastResp' = lastResp
  /\ hist' = [hist EXCEPT !.raced = @ \cup
                ({Len(messages) + 1} \X
                 {h[d].user : d \in {d \in Conns : /\ Joining(d, h[c].room)
                                                   /\ h[d].user \in Range(h[c].parts)}})]
  /\ UNCHANGED <<roomVars, presence, pending, conn, cUserId, cRoomId, adapterRooms,
                 events>>

\* roomClients && roomClients.has(clientId), on the reference the handler holds.
RoomClientsHas(hc, clientId) == hc.rc = "live" /\ clientId \in adapterRooms[hc.room]

\* The status the loop gives a recipient whose socket is connected.
StatusFor(hc, clientId) == IF RoomClientsHas(hc, clientId) THEN SEEN ELSE DELIVERED

\* The recipient's registered connection is connected and subscribed to the room.
SubscribedNow(roomId, userId) ==
  /\ presence[userId] # None
  /\ presence[userId] \in Sockets
  /\ presence[userId] \in adapterRooms[roomId]

\* GET user:<participantId> and the lookup of the socket: the recipient is in the
\* room, connected elsewhere, registered without a connected socket, or absent.
\* A recipient that is connected elsewhere is sent the new-message notice
\* at once.
SendGet(c) ==
  /\ h[c].pc = "send_get"
  /\ LET participantId == Head(h[c].parts)
         clientId == presence[participantId]
     IN /\ hist' = IF SubscribedNow(h[c].room, participantId)
                      THEN [hist EXCEPT !.subscribed = @ \cup {<<h[c].msg, participantId>>}]
                      ELSE hist
        /\ IF clientId = None
             THEN /\ h' = [h EXCEPT ![c] = [h[c] EXCEPT !.pc = "send_sent", !.status = SENT]]
                  /\ lastResp' = lastResp
             ELSE IF clientId \in Sockets
               THEN /\ h' = [h EXCEPT ![c] = [h[c] EXCEPT !.pc = "send_set", !.sock = clientId,
                                                          !.status = StatusFor(h[c], clientId)]]
                    /\ lastResp' = IF StatusFor(h[c], clientId) = DELIVERED
                                     THEN At(clientId, Notice(h[c].room)) ELSE lastResp
               ELSE /\ h' = [h EXCEPT ![c] = SendNext(h[c])]
                    /\ lastResp' = SendNextResp(c, h[c])
  /\ UNCHANGED <<roomVars, messages, presence, pending, conn, cUserId, cRoomId, adapterRooms,
                 events>>

\* SET messageStatus:<participantId>:<roomId>:<messageId> to SEEN or DELIVERED.
SendSet(c) ==
  /\ h[c].pc = "send_set"
  /\ pending' = RedisSet(pending, <<Head(h[c].parts), h[c].room, h[c].msg>>, h[c].status)
  /\ h' = [h EXCEPT ![c].pc = "send_db"]
  /\ UNCHANGED <<roomVars, messages, presence, conn, cUserId, cRoomId, adapterRooms,
                 lastResp, hist, events>>

\* updateMessageStatus(message, participantId, status); for DELIVERED,
\* handleUnreadMessages(socket) of the recipient's socket starts.
SendDb(c) ==
  /\ h[c].pc = "send_db"
  /\ messages' = UpdateMessageStatus(messages, h[c].msg, Head(h[c].parts), h[c].status)
  /\ IF h[c].status = SEEN
       THEN /\ h' = [h EXCEPT ![c] = SendNext(h[c])]
            /\ lastResp' = SendNextResp(c, h[c])
       ELSE /\ h' = [h EXCEPT ![c] = [h[c] EXCEPT !.pc = "unread_keys", !.ret = "send",
                                                  !.user = cUserId[h[c].sock]]]
            /\ lastResp' = lastResp
  /\ UNCHANGED <<roomVars, presence, pending, conn, cUserId, cRoomId, adapterRooms,
                 hist, events>>

\* No presence entry: SET of the key to SENT.
SendSent(c) ==
  /\ h[c].pc = "send_sent"
  /\ pending' = RedisSet(pending, <<Head(h[c].parts), h[c].room, h[c].msg>>, SENT)
  /\ h' = [h EXCEPT ![c] = SendNext(h[c])]
  /\ lastResp' = SendNextResp(c, h[c])
  /\ hist' = [hist EXCEPT !.absent = @ \cup {<<h[c].msg, Head(h[c].parts)>>}]
  /\ UNCHANGED <<roomVars, messages, presence, conn, cUserId, cRoomId, adapterRooms,
                 events>>

(***************************************************************************)
(* Errors of the collaborators.                                            *)
(***************************************************************************)
\* The positions of a handler in handleUnreadMessages, handleLoadMessages and
\* the loop of handleSendMessage.
UnreadPcs == {"unread_keys", "unread_get", "unread_set", "unread_db"}

LoadPcs == {"load_find", "load_upd"}

SendPcs == {"send_save", "send_get", "send_set", "send_db", "send_sent"}

\* The send has stored its message and awaits GET user:<id> of the first of its
\* recipients: no recipient has been resolved yet.
StopsBeforeFirstRecipient(hc) ==
  /\ hc.pc = "send_get"
  /\ Len(hc.parts) = Len(messages[hc.msg].receivers)

\* The awaited operation of the handler of connection c (a call of the message
\* store or of Redis) throws.  The catch block of the function that awaited it
\* takes over: handleConnection disconnects the client; handleUnreadMessages and
\* handleLoadMessages return their failure object to their caller, which emits
\* it and goes on (handleJoinRoom and handleLeaveRoom then return their
\* success, handleSendMessage goes to the next participant); handleSendMessage
\* returns its failure.  stalled records the messages whose send stops this
\* way before its first recipient is resolved, each with the connections
\* whose handlers were in progress at that moment.
CollaboratorFails(c) ==
  /\ h[c].pc \in {"conn_set"} \cup UnreadPcs \cup LoadPcs \cup SendPcs
  /\ IF h[c].pc = "conn_set"
       THEN /\ conn' = [conn EXCEPT ![c] = "closed"]
            /\ adapterRooms' = [r \in KeyRooms |-> adapterRooms[r] \ {c}]
            /\ h' = [MarkStale(h, Emptied(adapterRooms, adapterRooms')) EXCEPT
                       ![c] = IdleHandler]
            /\ presence' = IF conn[c] = "open" THEN PresenceAfterDisconnect(c) ELSE presence
            /\ UNCHANGED <<lastResp, hist>>
       ELSE /\ h' = [h EXCEPT ![c] = IF h[c].pc \in UnreadPcs /\ h[c].ret = "send"
                                        THEN SendNext(h[c]) ELSE IdleHandler]
            /\ lastResp' =
                 CASE h[c].pc \in SendPcs ->
                        At(c, Resp("send", FALSE, "An error occurred while sending the message"))
                   [] h[c].pc \in LoadPcs /\ h[c].ret = "join" ->
                        At(c, RespAfterError("join", "Room joined successfully."))
                   [] h[c].pc \in LoadPcs /\ h[c].ret # "join" ->
                        At(c, Resp("load", FALSE, "An error occurred while loading messages"))
                   [] h[c].pc \in UnreadPcs /\ h[c].ret = "send" ->
                        SendNextRespAfterSummary(c, h[c], FALSE)
                   [] h[c].pc \in UnreadPcs /\ h[c].ret = "leave" ->
                        At(c, RespAfterError("leave", "Room left successfully."))
                   [] h[c].pc \in UnreadPcs /\ h[c].ret = "conn" ->
                        At(c, Resp("connect", FALSE, "Failed to fetch unread message counts"))
                   [] OTHER ->
                        At(c, Resp("unread", FALSE, "Failed to fetch unread message counts"))
            /\ hist' = IF h[c].pc \in UnreadPcs /\ h[c].ret = "conn"
                         THEN [hist EXCEPT !.summaries = @ \cup {c}]
                       ELSE IF StopsBeforeFirstRecipient(h[c])
                         THEN [hist EXCEPT !.stalled = @ \cup {<<h[c].msg, Active \ {c}>>}]
                       ELSE hist
            /\ UNCHANGED <<conn, adapterRooms, presence>>
  /\ UNCHANGED <<roomVars, messages, pending, cUserId, cRoomId, events>>

(***************************************************************************)
(* getChatList and getRequestChatList (ChatService.fetchChatList).         *)
(***************************************************************************)
\* chatRoomModel.find({participants: {$elemMatch: {userId, status}}}): the ids of
\* the rooms with a participant record of the user in that status.
RoomsOfUser(rs, userId, status) ==
  {n \in 1..Len(rs) :
     \E i \in 1..Len(rs[n].participants) :
       rs[n].participants[i].userId = userId /\ rs[n].participants[i].status = status}

\* messageModel.find({'participants.userId': userId}).  The Message schema has
\* no path 'participants' (the users of a message are its receivers), so what
\* the query returns is decided by the strictQuery option of the Mongoose
\* version the service is built with: where it is on, the unknown path is
\* taken out of the filter and every message is found; where it is off, the
\* filter goes to MongoDB as it is and no message matches.
MessagesOfUser(msgs, userId, strictQuery) == IF strictQuery THEN 1..Len(msgs) ELSE {}

\* roomMessages.sort(createdAt descending)[0]: the newest of the messages, 0
\* for none.
LatestMessage(roomMessages) ==
  IF roomMessages = {} THEN 0 ELSE CHOOSE m \in roomMessages : \A j \in roomMessages : j <= m

\* The reduce of fetchChatList: the messages with a receiver of the user whose
\* status is not SEEN.
NotSeenCount(msgs, roomMessages, userId) ==
  Cardinality({m \in roomMessages :
                 \E i \in 1..Len(msgs[m].receivers) :
                   /\ msgs[m].receivers[i].userId = userId
                   /\ msgs[m].receivers[i].status # SEEN})

\* fetchChatList(userId, status): the two finds, the map of room id to messages
\* and one entry per room found, in the order of the rooms.
GetChatList(q, userId, status, strictQuery) ==
  /\ q = "q1"
  /\ req[q].pc \in {"idle", "done"}
  /\ started < MaxLists
  /\ started' = started + 1
  /\ LET found == MessagesOfUser(messages, userId, strictQuery)
         roomIds == IdSeq(RoomsOfUser(rooms, userId, status))
         entry(n) == LET roomMessages == {m \in found : messages[m].room_id = n}
                     IN [room |-> n,
                         latest |-> LatestMessage(roomMessages),
                         not_seen_count |-> NotSeenCount(messages, roomMessages, userId)]
     IN req' = [req EXCEPT ![q] =
          [IdleReq EXCEPT !.op = "list", !.pc = "done", !.user = userId, !.result = "OK",
                          !.list = [i \in 1..Len(roomIds) |-> entry(roomIds[i])]]]
  /\ UNCHANGED <<rooms, chatVars>>

(***************************************************************************)
(* The specifications.                                                     *)
(***************************************************************************)
InitChatVars ==
  /\ messages = <<>>
  /\ presence = [u \in Users |-> None]
  /\ pending = [k \in KeySpace |-> None]
  /\ conn = [c \in Conns |-> "new"]
  /\ cUserId = [c \in Conns |-> None]
  /\ cRoomId = [c \in Conns |-> 0]
  /\ adapterRooms = [r \in KeyRooms |-> {}]
  /\ h = [c \in Conns |-> IdleHandler]
  /\ lastResp = NoResp
  /\ hist = [subscribed |-> {}, absent |-> {}, served |-> {}, raced |-> {}, clean |-> {},
             summaries |-> {}, stalled |-> {}]
  /\ events = 0

\* The gateway over the rooms ChatRooms, no connection opened yet.
Init ==
  /\ rooms = ChatRooms
  /\ req = [q \in Reqs |-> IdleReq]
  /\ started = 0
  /\ InitChatVars

\* The gateway over the rooms ChatRoomsRepeated, no connection opened yet.
InitRepeated ==
  /\ rooms = ChatRoomsRepeated
  /\ req = [q \in Reqs |-> IdleReq]
  /\ started = 0
  /\ InitChatVars

\* The gateway over the rooms ChatRoomsWith, the record of u2 in room 1 with any
\* status and any is_deleted flag, no connection opened yet.
InitMembers ==
  /\ \E status \in {ACCEPT, REQUEST, REJECT, BLOCKED}, is_deleted \in BOOLEAN :
       rooms = ChatRoomsWith(status, is_deleted)
  /\ req = [q \in Reqs |-> IdleReq]
  /\ started = 0
  /\ InitChatVars

\* The room store, empty, and no gateway traffic.
InitRooms ==
  /\ rooms = <<>>
  /\ req = [q \in Reqs |-> IdleReq]
  /\ started = 0
  /\ InitChatVars

\* Connections open and close, clients emit at most MaxEvents events, and the
\* handlers take their steps.
Next ==
  \/ \E c \in Conns : Connect(c)
  \/ \E c \in Conns : Disconnect(c)
  \/ \E c \in Conns : ConnVerifyOk(c)
  \/ \E c \in Conns : ConnVerifyFail(c)
  \/ \E c \in Conns : ConnSet(c)
  \/ \E c \in Conns : events < MaxEvents /\ UnreadMessages(c)
  \/ \E c \in Conns : UnreadKeys(c)
  \/ \E c \in Conns : UnreadGet(c)
  \/ \E c \in Conns : UnreadSet(c)
  \/ \E c \in Conns : UnreadDb(c)
  \/ \E c \in Conns : events < MaxEvents /\ LoadMessages(c)
  \/ \E c \in Conns : LoadFind(c)
  \/ \E c \in Conns : LoadUpd(c)
  \/ \E c \in Conns, roomId \in JoinRoomIds : events < MaxEvents /\ JoinRoom(c, roomId)
  \/ \E c \in Conns : events < MaxEvents /\ LeaveRoom(c)
  \/ \E c \in Conns, message \in ValidBodies : events < MaxEvents /\ SendMessage(c, message)
  \/ \E c \in Conns : SendSave(c)
  \/ \E c \in Conns : SendGet(c)
  \/ \E c \in Conns : SendSet(c)
  \/ \E c \in Conns : SendDb(c)
  \/ \E c \in Conns : SendSent(c)

Spec == Init /\ [][Next]_vars

\* The gateway when every token verifies and no client disconnects or leaves a
\* room: the clients emit at most MaxEventsStay events.
NextStay ==
  \/ \E c \in Conns : Connect(c)
  \/ \E c \in Conns : ConnVerifyOk(c)
  \/ \E c \in Conns : ConnSet(c)
  \/ \E c \in Conns : events < MaxEventsStay /\ UnreadMessages(c)
  \/ \E c \in Conns : UnreadKeys(c)
  \/ \E c \in Conns : UnreadGet(c)
  \/ \E c \in Conns : UnreadSet(c)
  \/ \E c \in Conns : UnreadDb(c)
  \/ \E c \in Conns : events < MaxEventsStay /\ LoadMessages(c)
  \/ \E c \in Conns : LoadFind(c)
  \/ \E c \in Conns : LoadUpd(c)
  \/ \E c \in Conns, roomId \in JoinRoomIds : events < MaxEventsStay /\ JoinRoom(c, roomId)
  \/ \E c \in Conns, message \in ValidBodies : events < MaxEventsStay /\ SendMessage(c, message)
  \/ \E c \in Conns : SendSave(c)
  \/ \E c \in Conns : SendGet(c)
  \/ \E c \in Conns : SendSet(c)
  \/ \E c \in Conns : SendDb(c)
  \/ \E c \in Conns : SendSent(c)

SpecStay == Init /\ [][NextStay]_vars

\* The gateway when every token verifies, no client disconnects, and the
\* awaited operations of the handlers may throw: the clients emit at most
\* MaxEventsFaulty events.
NextFaulty ==
  \/ \E c \in Conns : Connect(c)
  \/ \E c \in Conns : ConnVerifyOk(c)
  \/ \E c \in Conns : ConnSet(c)
  \/ \E c \in Conns : events < MaxEventsFaulty /\ UnreadMessages(c)
  \/ \E c \in Conns : UnreadKeys(c)
  \/ \E c \in Conns : UnreadGet(c)
  \/ \E c \in Conns : UnreadSet(c)
  \/ \E c \in Conns : UnreadDb(c)
  \/ \E c \in Conns : events < MaxEventsFaulty /\ LoadMessages(c)
  \/ \E c \in Conns : LoadFind(c)
  \/ \E c \in Conns : LoadUpd(c)
  \/ \E c \in Conns, roomId \in JoinRoomIds : events < MaxEventsFaulty /\ JoinRoom(c, roomId)
  \/ \E c \in Conns : events < MaxEventsFaulty /\ LeaveRoom(c)
  \/ \E c \in Conns, message \in ValidBodies : events < MaxEventsFaulty /\ SendMessage(c, message)
  \/ \E c \in Conns : SendSave(c)
  \/ \E c \in Conns : SendGet(c)
  \/ \E c \in Conns : SendSet(c)
  \/ \E c \in Conns : SendDb(c)
  \/ \E c \in Conns : SendSent(c)
  \/ \E c \in Conns : CollaboratorFails(c)

SpecFaulty == Init /\ [][NextFaulty]_vars

\* The gateway when every token verifies and no client disconnects or leaves a
\* room, with the clients emitting at most MaxEventsList join-room and
\* send-message events, and chat lists fetched over HTTP in between.
NextList ==
  \/ \E c \in Conns : Connect(c)
  \/ \E c \in Conns : ConnVerifyOk(c)
  \/ \E c \in Conns : ConnSet(c)
  \/ \E c \in Conns : UnreadKeys(c)
  \/ \E c \in Conns : UnreadGet(c)
  \/ \E c \in Conns : UnreadSet(c)
  \/ \E c \in Conns : UnreadDb(c)
  \/ \E c \in Conns : LoadFind(c)
  \/ \E c \in Conns : LoadUpd(c)
  \/ \E c \in Conns, roomId \in JoinRoomIds : events < MaxEventsList /\ JoinRoom(c, roomId)
  \/ \E c \in Conns, message \in ValidBodies : events < MaxEventsList /\ SendMessage(c, message)
  \/ \E c \in Conns : SendSave(c)
  \/ \E c \in Conns : SendGet(c)
  \/ \E c \in Conns : SendSet(c)
  \/ \E c \in Conns : SendDb(c)
  \/ \E c \in Conns : SendSent(c)
  \/ \E q \in Reqs, userId \in Users, status \in {ACCEPT, REQUEST}, strictQuery \in BOOLEAN :
        GetChatList(q, userId, status, strictQuery)

SpecList == Init /\ [][NextList]_vars

\* The same, over a room whose participants hold two records of one user.
SpecRepeated == InitRepeated /\ [][NextList]_vars

\* The gateway when every token verifies and no client disconnects, with the
\* clients emitting at most MaxEventsMembers join-room, leave-room and
\* send-message events.
NextMembers ==
  \/ \E c \in Conns : Connect(c)
  \/ \E c \in Conns : ConnVerifyOk(c)
  \/ \E c \in Conns : ConnSet(c)
  \/ \E c \in Conns : UnreadKeys(c)
  \/ \E c \in Conns : UnreadGet(c)
  \/ \E c \in Conns : UnreadSet(c)
  \/ \E c \in Conns : UnreadDb(c)
  \/ \E c \in Conns : LoadFind(c)
  \/ \E c \in Conns : LoadUpd(c)
  \/ \E c \in Conns, roomId \in JoinRoomIds : events < MaxEventsMembers /\ JoinRoom(c, roomId)
  \/ \E c \in Conns : events < MaxEventsMembers /\ LeaveRoom(c)
  \/ \E c \in Conns, message \in ValidBodies : events < MaxEventsMembers /\ SendMessage(c, message)
  \/ \E c \in Conns : SendSave(c)
  \/ \E c \in Conns : SendGet(c)
  \/ \E c \in Conns : SendSet(c)
  \/ \E c \in Conns : SendDb(c)
  \/ \E c \in Conns : SendSent(c)

SpecMembers == InitMembers /\ [][NextMembers]_vars

\* The gateway when every token verifies and no client disconnects or leaves a
\* room, with the clients emitting at most MaxEventsBodies join-room and
\* send-message events, the message events with any of the texts of Bodies.
NextBodies ==
  \/ \E c \in Conns : Connect(c)
  \/ \E c \in Conns : ConnVerifyOk(c)
  \/ \E c \in Conns : ConnSet(c)
  \/ \E c \in Conns : UnreadKeys(c)
  \/ \E c \in Conns : UnreadGet(c)
  \/ \E c \in Conns : UnreadSet(c)
  \/ \E c \in Conns : UnreadDb(c)
  \/ \E c \in Conns : LoadFind(c)
  \/ \E c \in Conns : LoadUpd(c)
  \/ \E c \in Conns, roomId \in JoinRoomIds : events < MaxEventsBodies /\ JoinRoom(c, roomId)
  \/ \E c \in Conns, message \in Bodies : events < MaxEventsBodies /\ SendMessage(c, message)
  \/ \E c \in Conns : SendSave(c)
  \/ \E c \in Conns : SendGet(c)
  \/ \E c \in Conns : SendSet(c)
  \/ \E c \in Conns : SendDb(c)
  \/ \E c \in Conns : SendSent(c)

SpecBodies == Init /\ [][NextBodies]_vars

NextRooms ==
  \/ \E q \in Reqs, user \in Requesters, type \in {SINGLE, GROUP}, name \in Names,
        ids \in SeqsUpTo(Users, MaxIds) : CreateRoom(q, user, type, name, ids)
  \/ \E q \in Reqs : CreateRoomCheck(q)
  \/ \E q \in Reqs : CreateRoomSave(q)
  \/ \E q \in Reqs, user \in Requesters, roomId \in 1..MaxRooms,
        ids \in SeqsUpTo(Users, MaxIds) : AddParticipant(q, user, roomId, ids)
  \/ \E q \in Reqs : AddParticipantGet(q)
  \/ \E q \in Reqs : AddParticipantUpdate(q)

SpecRooms == InitRooms /\ [][NextRooms]_vars

(***************************************************************************)
(* Properties of the room store, checked under SpecRooms.                  *)
(***************************************************************************)
\* C7: a createRoom of type SINGLE by A with the one participant B (a request
\* that the validation pipe lets through) that arrives when a SINGLE room with
\* A and B is stored, whoever created it, never gets to the save, is answered
\* with Conflict, and no step of it stores a room.
C7_SecondDirectRoomIsConflict ==
  [][\A q \in Reqs :
       req'[q].existed =>
         /\ req'[q].pc \in {"check", "done"}
         /\ req'[q].pc = "done" => req'[q].result = "Conflict"
         /\ req'[q] # req[q] => rooms' = rooms]_vars

\* The refused request was made by the participant that did not create the room.
C7_Witness ==
  \E q \in Reqs :
    /\ req[q].existed /\ req[q].pc = "done" /\ req[q].result = "Conflict"
    /\ Len(rooms) = 1
    /\ rooms[1].type = SINGLE
    /\ rooms[1].created_by # req[q].user

\* The requester may not add to the room: not one of its admins, or the room is
\* not a GROUP room.
MayNotAdd(room, currentUserId) ==
  currentUserId \notin Range(room.admins) \/ room.type # GROUP

\* C8: when addParticipantToRoom has read an existing room whose admins do not
\* include the requester, or that is not a GROUP room, the request is answered
\* with Unauthorized and the stored rooms (participants, admins) are unchanged;
\* no such request gets to the update.
C8_AddParticipantsUnauthorized ==
  [][\A q \in Reqs :
       /\ ( /\ req[q].op = "add" /\ req[q].pc = "get"
            /\ req'[q] # req[q]
            /\ req[q].roomId \in 1..Len(rooms)
            /\ MayNotAdd(rooms[req[q].roomId], req[q].user) )
          => /\ req'[q].pc = "done"
             /\ req'[q].result = "Unauthorized"
             /\ rooms' = rooms
       /\ (req'[q].op = "add" /\ req'[q].pc = "update")
          => /\ req'[q].roomId \in 1..Len(rooms')
             /\ ~MayNotAdd(rooms'[req'[q].roomId], req'[q].user)]_vars

\* Both causes at once: an admin refused on a SINGLE room and a user who is no
\* admin refused, side by side.
C8_Witness ==
  \E q, p \in Reqs :
    /\ req[q].op = "add" /\ req[q].pc = "done" /\ req[q].result = "Unauthorized"
    /\ req[q].roomId \in 1..Len(rooms)
    /\ req[q].user \in Range(rooms[req[q].roomId].admins)
    /\ rooms[req[q].roomId].type = SINGLE
    /\ req[p].op = "add" /\ req[p].pc = "done" /\ req[p].result = "Unauthorized"
    /\ req[p].roomId \in 1..Len(rooms)
    /\ req[p].user \notin Range(rooms[req[p].roomId].admins)

\* The ids hold the requester's own id or the id of a participant of the room.
HasOwnOrExisting(room, currentUserId, userIds) ==
  \/ currentUserId \in Range(userIds)
  \/ Range(userIds) \cap Range(ParticipantIds(room)) # {}

\* C9: when addParticipantToRoom has read a GROUP room of which the requester is
\* an admin and userIds holds the requester's own id or the id of a participant,
\* the request is answered with Conflict and ends there with the stored rooms
\* unchanged: none of the ids is added, the ones that are new included.
C9_AddParticipantsConflictAllOrNothing ==
  [][\A q \in Reqs :
       ( /\ req[q].op = "add" /\ req[q].pc = "get"
         /\ req'[q] # req[q]
         /\ req[q].roomId \in 1..Len(rooms)
         /\ ~MayNotAdd(rooms[req[q].roomId], req[q].user)
         /\ HasOwnOrExisting(rooms[req[q].roomId], req[q].user, req[q].ids) )
       => /\ req'[q].pc = "done"
          /\ req'[q].result = "Conflict"
          /\ rooms' = rooms]_vars

\* A refused request whose ids were a participant of the room and a new user;
\* the new user is no participant.
C9_Witness ==
  \E q \in Reqs :
    /\ req[q].op = "add" /\ req[q].pc = "done" /\ req[q].result = "Conflict"
    /\ req[q].roomId \in 1..Len(rooms)
    /\ req[q].user \notin Range(req[q].ids)
    /\ \E i, j \in 1..Len(req[q].ids) :
         /\ req[q].ids[i] \in Range(ParticipantIds(rooms[req[q].roomId]))
         /\ req[q].ids[j] \notin Range(ParticipantIds(rooms[req[q].roomId]))

\* The records of the user among the participants.
RecordsOf(participants, userId) ==
  {i \in 1..Len(participants) : participants[i].userId = userId}

\* C15: the step in which createRoom succeeds stores one room: its admins are
\* the creator alone, the creator has a participant record and each of the
\* creator's records has status ACCEPT, and every id of participantIds has a
\* record with status REQUEST that is not deleted; and every stored room keeps
\* its creator as its only admin and as a participant with status ACCEPT.
C15_CreatedRoomHasCreatorAndParticipants ==
  [][/\ \A q \in Reqs :
          ( /\ req[q].op = "create" /\ req[q].pc = "save"
            /\ req'[q].pc = "done" /\ req'[q].result = "Created" )
          => /\ Len(rooms') = Len(rooms) + 1
             /\ LET room == rooms'[Len(rooms')]
                IN /\ room.admins = <<req[q].user>>
                   /\ RecordsOf(room.participants, req[q].user) # {}
                   /\ \A i \in RecordsOf(room.participants, req[q].user) :
                        room.participants[i].status = ACCEPT
                   /\ \A k \in 1..Len(req[q].ids) :
                        \E i \in RecordsOf(room.participants, req[q].ids[k]) :
                          /\ room.participants[i].status = REQUEST
                          /\ ~room.participants[i].is_deleted
     /\ \A n \in 1..Len(rooms') :
          /\ rooms'[n].admins = <<rooms'[n].created_by>>
          /\ \E i \in RecordsOf(rooms'[n].participants, rooms'[n].created_by) :
               rooms'[n].participants[i].status = ACCEPT]_vars

\* A GROUP room created with two participant ids.
C15_Witness ==
  \E q \in Reqs, n \in 1..Len(rooms) :
    /\ req[q].op = "create" /\ req[q].result = "Created" /\ req[q].roomId = n
    /\ rooms[n].type = GROUP
    /\ Len(rooms[n].participants) = 3
    /\ Cardinality(Range(ParticipantIds(rooms[n]))) = 3

\* C16, as stated: a createRoom whose participantIds hold the creator's own id
\* is answered at once with InvalidArgument (BadRequest), and stores no room.
C16_SelfAddIsInvalidArgument ==
  [][\A q \in Reqs :
       (req'[q] # req[q] /\ req'[q].op = "create" /\ req'[q].self)
       => /\ req'[q].pc = "done"
          /\ req'[q].result = "BadRequest"
          /\ rooms' = rooms]_vars

\* C16, amended: a createRoom whose participantIds hold the creator's own id
\* is answered at once and stores no room; the answer is Conflict when the
\* request passes the validation pipe and BadRequest when it does not.
C16_SelfAddIsConflict ==
  [][\A q \in Reqs :
       (req'[q] # req[q] /\ req'[q].op = "create" /\ req'[q].self)
       => /\ req'[q].pc = "done"
          /\ req'[q].result = IF req'[q].valid THEN "Conflict" ELSE "BadRequest"
          /\ rooms' = rooms]_vars

\* A valid request with the creator's own id was refused with Conflict, and
\* another that also broke the schema was refused with BadRequest.
C16_Witness ==
  \E q, p \in Reqs :
    /\ req[q].op = "create" /\ req[q].self /\ req[q].valid /\ req[q].result = "Conflict"
    /\ req[p].op = "create" /\ req[p].self /\ ~req[p].valid /\ req[p].result = "BadRequest"

\* C19: no stored room has two participant records with the same userId.
C19_ParticipantIdsUnique ==
  \A n \in 1..Len(rooms) :
    \A i, j \in 1..Len(rooms[n].participants) :
      rooms[n].participants[i].userId = rooms[n].participants[j].userId => i = j

\* C20: no two stored SINGLE rooms have the same pair of participants.
C20_OneDirectRoomPerPair ==
  \A n, m \in 1..Len(rooms) :
    ( /\ rooms[n].type = SINGLE /\ rooms[m].type = SINGLE
      /\ Range(ParticipantIds(rooms[n])) = Range(ParticipantIds(rooms[m])) )
    => n = m

\* C31: the step in which addParticipantToRoom succeeds leaves the room's type,
\* admins, creator and every participant record it had as they were, and after
\* it every id of userIds has a participant record with status REQUEST that is
\* not deleted.
C31_AddParticipantsAddsAndKeepsTheRest ==
  [][\A q \in Reqs :
       ( /\ req[q].op = "add" /\ req[q].pc = "update"
         /\ req'[q].pc = "done" /\ req'[q].result = "OK" )
       => /\ req[q].roomId \in 1..Len(rooms)
          /\ Len(rooms') = Len(rooms)
          /\ LET old == rooms[req[q].roomId]
                 new == rooms'[req[q].roomId]
             IN /\ new.type = old.type
                /\ new.admins = old.admins
                /\ new.created_by = old.created_by
                /\ Len(new.participants) >= Len(old.participants)
                /\ \A i \in 1..Len(old.participants) :
                     new.participants[i] = old.participants[i]
                /\ \A k \in 1..Len(req[q].ids) :
                     \E i \in RecordsOf(new.participants, req[q].ids[k]) :
                       /\ new.participants[i].status = REQUEST
                       /\ ~new.participants[i].is_deleted]_vars

\* Two users were added to a GROUP room that had its creator and one other
\* participant.
C31_Witness ==
  \E q \in Reqs :
    /\ req[q].op = "add" /\ req[q].pc = "done" /\ req[q].result = "OK"
    /\ req[q].roomId \in 1..Len(rooms)
    /\ rooms[req[q].roomId].type = GROUP
    /\ Len(rooms[req[q].roomId].participants) = 4
    /\ rooms[req[q].roomId].participants[3].status = REQUEST
    /\ rooms[req[q].roomId].participants[4].status = REQUEST

\* A SINGLE room has two participant records: its creator and one other user.
TwoParticipants(room) ==
  /\ Len(room.participants) = 2
  /\ room.created_by \in Range(ParticipantIds(room))
  /\ Cardinality(Range(ParticipantIds(room))) = 2

\* A createRoom request of type SINGLE whose participantIds do not hold exactly
\* one id takes a step.
SingleNotOne(r, next) ==
  next # r /\ next.op = "create" /\ next.type = SINGLE /\ next.given # 1

\* C32, as stated: every stored SINGLE room has exactly two participants, its
\* creator and one other user; a createRoom of type SINGLE whose participantIds
\* do not hold exactly one id never gets to the save, stores nothing and is
\* answered with Conflict; and no step changes a stored SINGLE room.
C32_DirectRoomHasTwoElseConflict ==
  [][/\ \A n \in 1..Len(rooms') : rooms'[n].type = SINGLE => TwoParticipants(rooms'[n])
     /\ \A q \in Reqs :
          SingleNotOne(req[q], req'[q])
          => /\ rooms' = rooms
             /\ req'[q].pc \in {"check", "done"}
             /\ req'[q].pc = "done" => req'[q].result = "Conflict"
     /\ \A n \in 1..Len(rooms) :
          rooms[n].type = SINGLE => n <= Len(rooms') /\ rooms'[n] = rooms[n]]_vars

\* C32, amended: the same, with the answer Conflict when the request passes
\* the validation pipe (its participantIds then hold two or more ids) and
\* BadRequest when it does not, as with an empty participantIds.
C32_DirectRoomHasTwoElseConflictOrBadRequest ==
  [][/\ \A n \in 1..Len(rooms') : rooms'[n].type = SINGLE => TwoParticipants(rooms'[n])
     /\ \A q \in Reqs :
          SingleNotOne(req[q], req'[q])
          => /\ rooms' = rooms
             /\ req'[q].pc \in {"check", "done"}
             /\ req'[q].pc = "done" =>
                  req'[q].result = IF req'[q].valid THEN "Conflict" ELSE "BadRequest"
             /\ req'[q].given = 0 => ~req'[q].valid
     /\ \A n \in 1..Len(rooms) :
          rooms[n].type = SINGLE => n <= Len(rooms') /\ rooms'[n] = rooms[n]]_vars

\* A SINGLE room is stored; a request of type SINGLE with two ids, neither the
\* requester's own and neither in a SINGLE room with the requester, was
\* refused with Conflict, and one with no ids with BadRequest.
C32_Witness ==
  \E q, p \in Reqs :
    /\ \E n \in 1..Len(rooms) : rooms[n].type = SINGLE
    /\ req[q].op = "create" /\ req[q].type = SINGLE /\ req[q].given = 2
    /\ req[q].valid /\ ~req[q].self /\ req[q].result = "Conflict"
    /\ req[p].op = "create" /\ req[p].type = SINGLE /\ req[p].given = 0
    /\ req[p].result = "BadRequest"

(***************************************************************************)
(* Properties of the chat list, checked under SpecList.                    *)
(***************************************************************************)
\* The stored receipts: the pairs of a message and a user it has a receiver of.
Receivers == {p \in MsgIds \X Users : p[1] <= Len(messages) /\ HasReceiver(messages[p[1]], p[2])}

\* C21: in the step in which a chat list of user U is returned, the unseen
\* count of every room of the list is the number of stored messages of that
\* room with a receipt of U whose status is not SEEN.
C21_UnseenCountMatchesReceipts ==
  [][\A q \in Reqs :
       (req'[q] # req[q] /\ req'[q].op = "list")
       => \A i \in 1..Len(req'[q].list) :
            req'[q].list[i].not_seen_count =
              Cardinality({p \in Receivers :
                             /\ p[2] = req'[q].user
                             /\ messages[p[1]].room_id = req'[q].list[i].room
                             /\ Receipt(messages, p[1], p[2]) # SEEN})]_vars

(***************************************************************************)
(* Properties of the gateway, checked under Spec, SpecStay, SpecFaulty and   *)
(* SpecRepeated.                                                           *)
(***************************************************************************)
\* C1: in every step the stored status of each (message, receiver) keeps its
\* rank or rises in the order SENT < DELIVERED < SEEN.
C1_ReceiptNeverDecreases ==
  [][\A p \in Receivers :
       Rank(Receipt(messages', p[1], p[2])) >= Rank(Receipt(messages, p[1], p[2]))]_vars

\* C2: while handleSendMessage handles a recipient whose registered socket was
\* connected and in the room when GET user:<id> resolved, the recipient's stored
\* status is never DELIVERED, and it is SEEN when the recipient's turn ends.
C2_SubscribedRecipientGoesToSeen ==
  [][\A c \in Conns :
       ( /\ h[c].msg # 0
         /\ h[c].parts # <<>>
         /\ <<h[c].msg, Head(h[c].parts)>> \in hist'.subscribed )
       => /\ Receipt(messages', h[c].msg, Head(h[c].parts)) # DELIVERED
          /\ h'[c].parts # h[c].parts
               => Receipt(messages', h[c].msg, Head(h[c].parts)) = SEEN]_vars

\* C3: when a send returns, the stored status of every recipient it found
\* without a presence entry is SENT; when the next unread summary of such a
\* recipient (of a connect or of an unread event) returns, the status is
\* DELIVERED; and it is never SENT from then on.
C3_AbsentRecipientSentThenDelivered ==
  [][/\ \A c \in Conns :
          (h[c].msg # 0 /\ h'[c].pc = "idle")
          => \A u \in Users :
               <<h[c].msg, u>> \in hist'.absent => Receipt(messages', h[c].msg, u) = SENT
     /\ \A c \in Conns :
          (h[c].pc \in UnreadPcs /\ h[c].ret \in {"conn", "event"} /\ h'[c].pc = "idle")
          => \A m \in h[c].owed :
               <<m, h[c].user>> \notin hist.served
               => Receipt(messages', m, h[c].user) = DELIVERED
     /\ \A p \in hist'.served : Receipt(messages', p[1], p[2]) # SENT]_vars

\* C4: when a join of room R by user U returns with no send to R in between,
\* every stored status of U on a message of R is SEEN, and the load event that
\* follows on the connection, still with no send to R, returns the messages of
\* R with none of them unseen by U.
C4_JoinMarksAllSeen ==
  [][\A c \in Conns :
       (h'[c].pc = "idle" /\ <<c, h[c].room>> \in hist.clean \cup hist'.clean)
       => /\ h[c].ret = "join"
               => \A m \in MessagesForRoom(messages', h[c].room) :
                    HasReceiver(messages'[m], h[c].user)
                    => Receipt(messages', m, h[c].user) = SEEN
          /\ (h[c].ret = "event" /\ h[c].pc \in {"load_find", "load_upd"})
               => /\ lastResp'.conn = c /\ lastResp'.ev = "load"
                  /\ lastResp'.msgs = MessagesForRoom(messages', h[c].room)
                  /\ lastResp'.unseen = {}]_vars

\* The socket has been registered: handleConnection has run SET user:<userId>.
Registered(c) == cUserId[c] # None /\ h[c].pc \notin {"verify", "conn_set"}

\* C5: when a registered socket disconnects while user:<userId> holds the id of
\* another socket, which registered later, the entry still holds that id
\* after the disconnect.
C5_DisconnectKeepsNewerPresence ==
  [][\A c \in Conns :
       ( /\ conn[c] = "open" /\ conn'[c] = "closed"
         /\ Registered(c)
         /\ presence[Ident(c)] \notin {None, c} )
       => presence'[Ident(c)] = presence[Ident(c)]]_vars

\* A handler is at work on the send of message m or on a join of its room by u.
SendOrJoinAtWork(hh, msgs, m, u) ==
  \E d \in Conns :
    \/ hh[d].msg = m
    \/ hh[d].ret = "join" /\ hh[d].room = msgs[m].room_id /\ hh[d].user = u

\* C6: when the send of a message and a join of its room by the recipient U
\* have run at the same time, the stored status of (message, U) is SEEN at the
\* step in which the last of the two returns.
C6_SendAndJoinConvergeToSeen ==
  [][\A p \in hist'.raced :
       ( /\ SendOrJoinAtWork(h, messages', p[1], p[2])
         /\ ~SendOrJoinAtWork(h', messages', p[1], p[2]) )
       => Receipt(messages', p[1], p[2]) = SEEN]_vars

\* C10: when the unread event that follows a join of room R by B on the
\* connection returns, with no send to R since the join, the summary counts
\* nothing for R, and nothing at all when every message to B is one of R.
C10_UnreadAfterJoinCountsNothing ==
  [][\A c \in Conns, r \in KeyRooms :
       ( /\ h[c].pc \in UnreadPcs /\ h[c].ret = "event" /\ h'[c].pc = "idle"
         /\ <<c, r>> \in hist.clean )
       => /\ lastResp'.conn = c /\ lastResp'.ev = "unread"
          /\ lastResp'.counts[r] = 0
          /\ (\A p \in Receivers : p[2] = h[c].user => messages[p[1]].room_id = r)
               => lastResp'.total = 0]_vars

\* The token of the connection failed to verify: the socket is closed, the
\* handler has returned and client['userId'] was never set.
FailedVerification(cn, cu, hh, c) == cn[c] = "closed" /\ cu[c] = None /\ hh[c].pc = "idle"

\* C11: the step in which verifyToken throws closes the connection, leaves
\* client['userId'] unset, writes no presence entry and pushes nothing, the
\* handleDisconnect it causes included; and from then on no presence entry holds
\* the connection, no response or summary is addressed to it, and no send has
\* picked it as a recipient's socket.
C11_FailedVerificationNeverRegisters ==
  [][\A c \in Conns :
       /\ (h[c].pc = "verify" /\ h'[c].pc = "idle")
          => /\ conn'[c] = "closed"
             /\ cUserId'[c] = None
             /\ presence' = presence
             /\ lastResp' = lastResp
       /\ FailedVerification(conn', cUserId', h', c)
          => /\ \A u \in Users : presence'[u] # c
             /\ lastResp'.conn # c
             /\ \A d \in Conns : h'[d].sock # c]_vars

\* A connection has failed to verify while another connection of the same
\* identity is registered.
C11_Witness ==
  \E c \in Conns :
    /\ FailedVerification(conn, cUserId, h, c)
    /\ presence[Ident(c)] # None

NotSendable(rs, roomId, userId) ==
  \/ roomId \notin 1..Len(rs)
  \/ \A i \in 1..Len(rs[roomId].participants) : rs[roomId].participants[i].userId # userId

\* C13: no send handler is ever at work for a room that does not exist or that
\* has no participant record of the sender; and the step that answers a
\* send-message event on a connection whose current room is such a room answers
\* with a failure and changes no stored message, no receipt, no pending key, no
\* subscription and no handler, so nothing is pushed to any connection.
C13_RefusedSendHasNoSideEffects ==
  [][\A c \in Conns :
       /\ h'[c].sender # None => ~NotSendable(rooms', h'[c].room, h'[c].sender)
       /\ ( /\ Idle(c)
            /\ cRoomId[c] # 0
            /\ NotSendable(rooms, cRoomId[c], Ident(c))
            /\ lastResp' # lastResp
            /\ lastResp'.conn = c /\ lastResp'.ev = "send" )
          => /\ ~lastResp'.ok
             /\ lastResp'.text \in {"An error occurred while sending the message",
                                    "You are not a participant of this room"}
             /\ messages' = messages
             /\ pending' = pending
             /\ presence' = presence
             /\ adapterRooms' = adapterRooms
             /\ h' = h]_vars

\* A send was refused for a room the sender is no participant of while a
\* message of another send is stored.
C13_Witness ==
  /\ lastResp.ev = "send" /\ ~lastResp.ok
  /\ lastResp.text = "You are not a participant of this room"
  /\ Len(messages) >= 1
  /\ cRoomId[lastResp.conn] \in 1..Len(rooms)

\* C14: every response to an event that has failed, whether the room is
\* missing, the user is no participant or an awaited operation of the handler
\* or of a handler it calls has thrown, carries success = false and a message,
\* and the step that answers leaves the connection as it was.
C14_EveryFailureAnsweredWithSuccessFalse ==
  [][(lastResp' # lastResp /\ lastResp'.failed)
       => /\ ~lastResp'.ok
          /\ lastResp'.text # None
          /\ conn'[lastResp'.conn] = conn[lastResp'.conn]]_vars

\* The rooms the socket is subscribed to.
RoomsOf(ar, c) == {r \in KeyRooms : c \in ar[r]}

\* C17: no connection is subscribed to more than one room; and a send gives a
\* recipient SEEN, as present in the room, only when the room is the current
\* room of the recipient's socket.
C17_OneRoomPerConnection ==
  [][/\ \A c \in Conns : Cardinality(RoomsOf(adapterRooms', c)) <= 1
     /\ \A c \in Conns :
          (h[c].pc = "send_get" /\ h'[c].pc = "send_set" /\ h'[c].status = SEEN)
          => cRoomId[h'[c].sock] = h[c].room]_vars

\* The connection has left its current room and has not joined since: its
\* current room is a room of which its user is a participant, and the open
\* socket is not subscribed to it.
HasLeft(c) ==
  /\ conn[c] = "open"
  /\ Idle(c)
  /\ cRoomId[c] \in 1..Len(rooms)
  /\ ~NotSendable(rooms, cRoomId[c], Ident(c))
  /\ c \notin adapterRooms[cRoomId[c]]

\* C18: when a successful leave-room returns, the connection has no current
\* room and is not subscribed to the room it left; and on a connection that
\* has left its room and not joined since, no send or load handler starts, and
\* a send-message or load-messages event is answered with the not-in-a-room
\* failure and stores nothing.
C18_LeaveClearsCurrentRoom ==
  [][\A c \in Conns :
       /\ (h[c].ret = "leave" /\ h[c].pc \in UnreadPcs /\ h'[c].pc = "idle")
          => /\ cRoomId'[c] = 0
             /\ cRoomId[c] \in KeyRooms => c \notin adapterRooms'[cRoomId[c]]
       /\ HasLeft(c)
          => /\ h'[c].pc # "send_save"
             /\ ~(h'[c].pc = "load_find" /\ h'[c].ret = "event")
             /\ (lastResp' # lastResp /\ lastResp'.conn = c /\ lastResp'.ev \in {"send", "load"})
                => /\ ~lastResp'.ok
                   /\ lastResp'.text = "You are not in a room"
                   /\ messages' = messages]_vars

\* The recipient at the head of the send's loop has a presence entry that holds
\* a connected socket which is not subscribed to the room of the send.
ElsewhereNow(hc) ==
  /\ hc.parts # <<>>
  /\ presence[Head(hc.parts)] # None
  /\ presence[Head(hc.parts)] \in Sockets
  /\ presence[Head(hc.parts)] \notin adapterRooms[hc.room]

\* C22: when GET user:<id> of a send to room R resolves to a connected socket
\* that is not subscribed to R, the step pushes the new-message notice of R to
\* that socket; the send then sets the pending key and the stored status of
\* the recipient to DELIVERED; and the step in which the unread summary of
\* the recipient returns pushes to that socket a summary that counts at least
\* one message for R.
C22_ElsewhereRecipientDeliveredAndNotified ==
  [][\A c \in Conns :
       /\ (h[c].pc = "send_get" /\ h'[c] # h[c] /\ ElsewhereNow(h[c]))
          => /\ lastResp'.conn = presence[Head(h[c].parts)]
             /\ lastResp'.ev = "new-message" /\ lastResp'.room = h[c].room
             /\ h'[c].pc = "send_set" /\ h'[c].status = DELIVERED
             /\ h'[c].sock = presence[Head(h[c].parts)]
       /\ ( /\ h[c].sock # None /\ h'[c] # h[c]
            /\ <<h[c].msg, Head(h[c].parts)>> \notin hist.subscribed )
          => /\ h[c].pc = "send_set"
                  => pending'[<<Head(h[c].parts), h[c].room, h[c].msg>>] = DELIVERED
             /\ h[c].pc = "send_db"
                  => Receipt(messages', h[c].msg, Head(h[c].parts)) = DELIVERED
             /\ (h[c].pc \in UnreadPcs /\ h'[c].pc \notin UnreadPcs)
                  => /\ lastResp'.summary.conn = h[c].sock
                     /\ lastResp'.summary.ok
                     /\ lastResp'.summary.counts[h[c].room] >= 1]_vars

\* No handler is in progress.
Quiescent == \A c \in Conns : Idle(c)

\* C23: when no handler is in progress, every stored receipt that is SENT or
\* DELIVERED has its pending key messageStatus:<recipient>:<room>:<message>,
\* and the key holds the status of the receipt.
C23_UnseenReceiptHasPendingEntry ==
  Quiescent =>
    \A p \in Receivers :
      Receipt(messages, p[1], p[2]) \in {SENT, DELIVERED}
      => pending[<<p[2], messages[p[1]].room_id, p[1]>>] = Receipt(messages, p[1], p[2])

\* C24: no pending key messageStatus:<recipient>:<room>:<message> is stored
\* for a receipt whose stored status is SEEN.
C24_NoPendingEntryForSeenReceipt ==
  \A p \in Receivers :
    Receipt(messages, p[1], p[2]) = SEEN
    => pending[<<p[2], messages[p[1]].room_id, p[1]>>] = None

RECURSIVE SumCounts(_, _)
SumCounts(counts, S) ==
  IF S = {} THEN 0
  ELSE LET r == CHOOSE r \in S : TRUE IN counts[r] + SumCounts(counts, S \ {r})

\* The summary that the step returns from handleUnreadMessages: to the client
\* of a connect, leave or unread event, or to the recipient's socket of a send.
ReturnedSummary(hc, resp) == IF hc.ret = "send" THEN resp.summary ELSE resp

\* C25: in the step in which handleUnreadMessages returns its summary for user
\* U, totalUnreadCount is the number of keys that held SENT or DELIVERED
\* when the handler read them, roomUnreadCounts of each room is the number
\* of those keys that are keys of the room, totalUnreadCount is the sum of
\* roomUnreadCounts, and each of those keys is a key of U.
C25_SummaryCountsOwnUnseenEntries ==
  [][\A c \in Conns :
       (h[c].pc \in UnreadPcs /\ h'[c].pc \notin UnreadPcs)
       => LET summary == ReturnedSummary(h[c], lastResp')
              scanned == h[c].scanned
          IN /\ summary.ok
             /\ summary.total = Cardinality(scanned)
             /\ \A r \in KeyRooms :
                  summary.counts[r] = Cardinality({k \in scanned : k[2] = r})
             /\ summary.total = SumCounts(summary.counts, KeyRooms)
             /\ \A k \in scanned : k[1] = h[c].user]_vars

\* A connection has been returned a summary that counts a message while a key
\* of another user holds SENT or DELIVERED.
C25_Witness ==
  /\ lastResp.ev \in {"connect", "unread"} /\ lastResp.ok
  /\ lastResp.total >= 1
  /\ \E k \in KeySpace : k[1] # cUserId[lastResp.conn] /\ pending[k] \in {SENT, DELIVERED}

\* The receivers of the message that are receivers of the user.
ReceiversOf(msg, userId) == {i \in 1..Len(msg.receivers) : msg.receivers[i].userId = userId}

\* C26: the step in which a send-message of sender S to room R stores its
\* message stores it with one receiver for each user that has a participant
\* record in R and is not S, with no receiver for any other user or for S, and
\* with every receiver SENT.
C26_OneSentReceiptPerRecipient ==
  [][\A c \in Conns :
       (h[c].pc = "send_save" /\ h'[c] # h[c])
       => /\ Len(messages') = Len(messages) + 1
          /\ LET msg == messages'[Len(messages')]
                 others == Range(ParticipantIds(rooms[h[c].room])) \ {Ident(c)}
             IN /\ msg.room_id = h[c].room /\ msg.sender_id = Ident(c)
                /\ \A u \in Users :
                     Cardinality(ReceiversOf(msg, u)) = IF u \in others THEN 1 ELSE 0
                /\ \A i \in 1..Len(msg.receivers) : msg.receivers[i].status = SENT]_vars

\* The step in which the send handler of connection c returns its success.
SendReturns(c, hh, next, resp) ==
  /\ hh[c].sender # None /\ next[c].pc = "idle"
  /\ resp.ev = "send" /\ resp.ok

\* C27: the step in which a send-message to room R returns its success to
\* the sender has first broadcast the message, once, to the sockets that are
\* subscribed to R at that moment other than the sender's: not to the
\* sender's socket, not to a socket outside R; and no other step broadcasts.
C27_BroadcastToRoomExceptSender ==
  [][/\ \A c \in Conns :
          SendReturns(c, h, h', lastResp')
          => /\ lastResp'.conn = c
             /\ lastResp'.room = h[c].room
             /\ lastResp'.cast = {d \in Conns : d # c /\ d \in adapterRooms'[h[c].room]}
             /\ c \notin lastResp'.cast
     /\ (lastResp' # lastResp /\ \A c \in Conns : ~SendReturns(c, h, h', lastResp'))
          => lastResp'.cast = {}]_vars

\* A send has returned after a broadcast to another socket of the room, with
\* the sender's socket in the room and a connected socket outside it.
C27_Witness ==
  /\ lastResp.ev = "send" /\ lastResp.ok
  /\ lastResp.cast # {}
  /\ lastResp.conn \in adapterRooms[lastResp.room]
  /\ \E d \in Conns : conn[d] = "open" /\ d \notin adapterRooms[lastResp.room]

\* The step answers a join-room event of connection c with a failure: an
\* event is emitted, no handler is left in progress for it, and the answer
\* goes to c.
JoinFails(c, hh, next, resp, n, m) ==
  /\ next = hh
  /\ m = n + 1
  /\ resp.conn = c /\ resp.ev = "join" /\ ~resp.ok

\* C28: the step that answers a join-room event with a failure, for a room
\* that does not exist or that the user is no participant of, leaves
\* client['roomId'], the subscriptions of the socket, the stored messages with
\* their receipts and the pending keys as they were.
C28_FailedJoinHasNoSideEffects ==
  [][\A c \in Conns :
       JoinFails(c, h, h', lastResp', events, events')
       => /\ cRoomId'[c] = cRoomId[c]
          /\ adapterRooms' = adapterRooms
          /\ messages' = messages
          /\ pending' = pending]_vars

\* C29: when the load of a join-room has marked the receipts and returned,
\* the join goes on to compute the unread summary of the connection, or the
\* step pushes that summary to the connection, before the join is answered.
C29_JoinPushesUnreadSummary ==
  [][\A c \in Conns :
       (h[c].ret = "join" /\ h[c].pc \in LoadPcs /\ h'[c].pc \notin LoadPcs)
       => \/ h'[c].pc \in UnreadPcs
          \/ /\ lastResp'.summary.conn = c
             /\ lastResp'.summary.ok]_vars

\* C30: for a message whose send has stopped after the message was stored and
\* before any recipient was resolved, and a recipient U of it: when a join of
\* the room by U that started afterwards returns with success, and when an
\* unread summary of U that started afterwards returns, the stored status of
\* (message, U) is above SENT.
C30_StalledSendHealsOnJoinAndUnread ==
  [][\A e \in hist.stalled, c \in Conns :
       ( /\ c \notin e[2]
         /\ HasReceiver(messages[e[1]], h[c].user)
         /\ h'[c].pc = "idle"
         /\ lastResp'.conn = c /\ lastResp'.ok /\ ~lastResp'.failed
         /\ \/ h[c].ret = "join" /\ h[c].pc \in LoadPcs /\ h[c].room = messages[e[1]].room_id
            \/ h[c].ret \in {"conn", "event", "leave"} /\ h[c].pc \in UnreadPcs )
       => Rank(Receipt(messages', e[1], h[c].user)) > Rank(SENT)]_vars

(***************************************************************************)
(* Properties of the membership check, checked under SpecMembers.          *)
(***************************************************************************)
\* The room is stored and has a participant record of the user.
HasRecord(rs, roomId, userId) ==
  /\ roomId \in 1..Len(rs)
  /\ RecordsOf(rs[roomId].participants, userId) # {}

\* The connection whose event starts a handler in this step, if any.
Started(hh, next) == {c \in Conns : hh[c].pc = "idle" /\ next[c].pc # "idle"}

\* C33: isUserInRoom holds of a room id and a user exactly when the room is
\* stored and has a participant record of the user, whatever the status and
\* the is_deleted flag of the record; a join-room, leave-room or send-message
\* event goes past its membership check when the room of the event has a
\* record of the connection's user, and is refused when it has not.
C33_MemberWhateverStatus ==
  [][/\ \A roomId \in JoinRoomIds, userId \in Users :
          IsUserInRoom(roomId, userId) <=> HasRecord(rooms, roomId, userId)
     /\ events' = events + 1
        => /\ \A c \in Started(h, h') :
                /\ h'[c].pc \in {"load_find", "unread_keys", "send_save"}
                /\ HasRecord(rooms, cRoomId'[c], Ident(c))
           /\ Started(h, h') = {}
              => /\ lastResp'.conn # None
                 /\ lastResp'.ev \in {"join", "leave", "send"}
                 /\ ~lastResp'.ok
                 /\ ~HasRecord(rooms, cRoomId'[lastResp'.conn], Ident(lastResp'.conn))]_vars

\* u2, whose record in room 1 is BLOCKED and deleted, has joined room 1 on a
\* connection, sent a message to it and left it.
C33_Witness ==
  \E c \in Conns :
    /\ Ident(c) = "u2"
    /\ rooms[1].participants[1] = [userId |-> "u2", status |-> BLOCKED, is_deleted |-> TRUE]
    /\ cRoomId[c] = 1
    /\ \E m \in 1..Len(messages) : messages[m].room_id = 1 /\ messages[m].sender_id = "u2"
    /\ lastResp.conn = c /\ lastResp.ev = "leave" /\ lastResp.ok

(***************************************************************************)
(* Properties of the message store, checked under SpecRepeated and         *)
(* SpecStay.                                                               *)
(***************************************************************************)
\* The ids updateMessageStatus is asked for: those of the stored messages and
\* two that no message has.
AskedIds == 0..(MaxMsgs + 1)

Statuses == {SENT, DELIVERED, SEEN}

\* The receivers of the message that differ between two stores.
ChangedReceivers(before, after, m) ==
  {i \in 1..Len(before[m].receivers) : after[m].receivers[i] # before[m].receivers[i]}

Fixed(msg) ==
  [room_id |-> msg.room_id, sender_id |-> msg.sender_id, message |-> msg.message,
   userIds |-> [i \in 1..Len(msg.receivers) |-> msg.receivers[i].userId]]

\* The saveMessage of the connection's handler resolves in this step: the
\* handler goes on to its first recipient, or returns its success when there
\* is none.
Saves(c, hh, next, resp) ==
  /\ hh[c].pc = "send_save"
  /\ next[c].pc = "send_get" \/ SendReturns(c, hh, next, resp)

\* C35: a step stores a message exactly when the saveMessage of one send-message
\* handler resolves, and then it stores one message, of that handler's room,
\* sender and text; a handler gets to its saveMessage once, so that a send that
\* is acknowledged has stored one message; and no step changes the room, the
\* sender, the text or the users of the receivers of a stored message.
C35_OneMessagePerSendAndFixed ==
  [][/\ \A c \in Conns :
          Saves(c, h, h', lastResp')
          => /\ Len(messages') = Len(messages) + 1
             /\ Fixed(messages'[Len(messages')]).room_id = h[c].room
             /\ Fixed(messages'[Len(messages')]).sender_id = h[c].sender
             /\ Fixed(messages'[Len(messages')]).message = h[c].body
     /\ (\A c \in Conns : ~Saves(c, h, h', lastResp')) => Len(messages') = Len(messages)
     /\ \A c \in Conns : h'[c].pc = "send_save" => h[c].pc \in {"idle", "send_save"}
     /\ \A c \in Conns :
          SendReturns(c, h, h', lastResp')
          => \/ Saves(c, h, h', lastResp')
             \/ /\ h[c].msg \in 1..Len(messages)
                /\ h'[c] # h[c] => Len(messages') = Len(messages)
     /\ \A m \in 1..Len(messages) :
          m <= Len(messages') /\ Fixed(messages'[m]) = Fixed(messages[m])]_vars

\* Two sends were acknowledged and two messages are stored, one in each room;
\* the receipt of the first has moved on from SENT.
C35_Witness ==
  /\ Len(messages) = 2
  /\ messages[1].room_id # messages[2].room_id
  /\ messages[1].receivers[1].status # SENT
  /\ lastResp.ev = "send" /\ lastResp.ok
  /\ \A c \in Conns : Idle(c)

(***************************************************************************)
(* Properties of the validation of a message, checked under SpecBodies.    *)
(***************************************************************************)
\* The step in which the validation pipe refuses a message event: no handler
\* moves and the client is sent the exception event.
Rejected(hh, next, resp, n, m) ==
  m = n + 1 /\ next = hh /\ resp.ev = "exception"

\* C36: the step in which a message event is refused by the validation pipe
\* stores no message, changes no receipt, no pending key, no presence entry,
\* no subscription and no current room, and broadcasts and pushes nothing but
\* the refusal; no handler of a message event runs with the empty text, and no
\* stored message has the empty text.
C36_EmptyMessageRejectedBeforePersistence ==
  [][/\ Rejected(h, h', lastResp', events, events')
        => /\ UNCHANGED <<messages, pending, presence, adapterRooms, cRoomId, hist>>
           /\ lastResp'.cast = {}
           /\ lastResp'.summary = NoSummary
           /\ ~lastResp'.ok
     /\ \A c \in Conns : h'[c].sender # None => h'[c].body \in Bodies \ {""}
     /\ \A m \in 1..Len(messages') : messages'[m].message # ""]_vars

\* A message event was refused on a connection that has joined room 1 together
\* with a connection of the other participant; nothing is stored.
C36_Witness ==
  /\ lastResp.ev = "exception"
  /\ lastResp.conn \in adapterRooms[1]
  /\ cRoomId[lastResp.conn] = 1
  /\ \E d \in adapterRooms[1] : Ident(d) # Ident(lastResp.conn)
  /\ messages = <<>>
  /\ \A k \in KeySpace : pending[k] = None

(***************************************************************************)
(* Properties of the current room, checked under SpecStay.                 *)
(***************************************************************************)
\* The step in which the handler of a load-messages event on connection c
\* returns its success.
LoadReturns(c, hh, next, resp) ==
  /\ hh[c].pc \in LoadPcs /\ hh[c].ret = "event" /\ next[c].pc = "idle"
  /\ resp.ev = "load" /\ resp.ok

\* C37: the messages that a successful load-messages event returns to a
\* connection are messages of rooms that have a participant record of the
\* connection's user, and a load-messages handler sets a receipt to SEEN only
\* in such a room.
C37_LoadOnlyInRoomsOfUser ==
  [][\A c \in Conns :
       /\ LoadReturns(c, h, h', lastResp')
          => \A m \in lastResp'.msgs : HasRecord(rooms, messages[m].room_id, Ident(c))
       /\ (h[c].pc = "load_upd" /\ h'[c] # h[c] /\ h[c].ret = "event")
          => HasRecord(rooms, h[c].room, Ident(c))]_vars

(***************************************************************************)
(* Properties of the presence entries, checked under Spec.                 *)
(***************************************************************************)
\* A handleConnection is in progress on the connection: it awaits verifyToken,
\* the SET of the presence entry or its unread summary.
Connecting(c) ==
  \/ h[c].pc \in {"verify", "conn_set"}
  \/ h[c].pc \in UnreadPcs /\ h[c].ret = "conn"

\* C38: when no handleConnection is in progress (handleDisconnect takes no step
\* of its own), every presence entry names a socket that is connected and
\* whose client['userId'] is the user of the entry.
C38_PresenceNamesLiveConnection ==
  (\A c \in Conns : ~Connecting(c))
  => \A u \in Users :
       presence[u] # None => /\ conn[presence[u]] = "open"
                             /\ cUserId[presence[u]] = u

(***************************************************************************)
(* Properties of a message event without a current room, checked under     *)
(* Spec.                                                                   *)
(***************************************************************************)
\* No join-room event has been handled on the connection: client['roomId'] is
\* not set.
NoRoomSet(c) == cRoomId[c] = 0

\* The step in which a message event with a valid text is refused: no handler
\* moves and the handler's answer goes to the connection.
SendRefused(hh, next, resp, n, m) ==
  m = n + 1 /\ next = hh /\ resp.ev = "send"

\* C39: a message event with a valid text on a connection on which no
\* join-room event has been handled is refused with 'You are not in a room',
\* and the step stores no message, changes no receipt, no pending key and no
\* subscription and broadcasts nothing; no send-message handler goes past its
\* checks on such a connection.
C39_SendWithoutRoomIsRefused ==
  [][/\ ( /\ SendRefused(h, h', lastResp', events, events')
           /\ NoRoomSet(lastResp'.conn) )
        => /\ ~lastResp'.ok
           /\ lastResp'.text = "You are not in a room"
           /\ lastResp'.cast = {}
           /\ lastResp'.summary = NoSummary
           /\ UNCHANGED <<messages, pending, presence, adapterRooms, cRoomId>>
     /\ \A c \in Conns : (NoRoomSet(c) /\ Idle(c)) => h'[c].sender = None]_vars

\* The message event was refused on a connection of u1 without a current room
\* while a connection of u2 is subscribed to room 1; nothing is stored.
C39_Witness ==
  /\ lastResp.ev = "send" /\ lastResp.text = "You are not in a room"
  /\ NoRoomSet(lastResp.conn)
  /\ Ident(lastResp.conn) = "u1"
  /\ \E d \in adapterRooms[1] : Ident(d) = "u2"
  /\ messages = <<>>
  /\ \A k \in KeySpace : pending[k] = None
====
